---- MODULE Spec2Model ----
(***************************************************************************)
(* Request-handling concurrency infrastructure of greenlight:              *)
(* the lifecycle coordinator (cmd/api/server.go, main), the detached       *)
(* background tasks spawned by the token handlers (cmd/api/tokens.go).     *)
(***************************************************************************)
EXTENDS Integers, FiniteSets, Sequences, TLC

\* ------------------------------------------------------------------ bounds
\* Number of client requests a run may carry.
MaxReq == 2
\* Number of requests that pass through the rateLimit middleware in a run.
MaxRL == 2
\* Largest burst (bucket capacity) a run is configured with.
MaxBurst == 4
\* Number of client requests in a run that is followed to its end.
MaxLiveReq == 1
\* Number of requests of the one address in a run that follows its entry
\* through evictions.
MaxEvictReq == 6
\* Number of clients that edit the one movie in a run.
MaxUpdaters == 3
\* Resolution of the token count: one token is TokenUnit units, and a rate is
\* a whole number of units per tick of the clock.
TokenUnit == 2

\* ------------------------------------------------------- program constants
\* context.WithTimeout(context.Background(), 5*time.Second)
GracePeriod == 5
\* quit := make(chan os.Signal, 1)
QuitCap == 1
\* os.Exit(1) in Logger.PrintFatal
FatalExit == 1

\* time.Tick(time.Minute): the sweep runs once per tick of the clock, which
\* is one minute.
SweepEvery == 1
\* time.Since(client.lastSeen) > 3*time.Minute
StaleAfter == 3
\* The clock of a run stops at the first sweep that can find a stale entry.
MaxNow == StaleAfter + 1
\* Calls of Allow() on the single limiter of a run.
MaxCalls == MaxBurst + 2
\* Refill rates a run is configured with, in units per tick.
Rates == {1, TokenUnit}

Reqs == 1..MaxReq
\* Requests through rateLimit, and the client addresses they come from.
RLReqs == 1..MaxRL
IPs == {"a", "b"}

VARIABLES
    proc,          \* "running" | "exited" | "killed": the operating-system process
    exitCode,      \* -1 while running, else the exit status of the process
    dbClose,       \* what the deferred db.Close() of main returned: "none" until it runs
    mainpc,        \* position of the goroutine running serve()
    serveRet,      \* value serve() returned: "none" until it returns
    lsErr,         \* value srv.ListenAndServe() returned
    listener,      \* "unbound" | "open" | "closed"
    inShutdown,    \* srv.inShutdown: Shutdown() has been called
    sigpc,         \* position of the signal-handling goroutine
    quit,          \* number of signals buffered in the quit channel
    lnerr,         \* error of closing the listener inside srv.Shutdown
    shutdownErr,   \* value srv.Shutdown(ctx) returned
    elapsed,       \* seconds of ctx known to have elapsed: 0, or 5 once its deadline passed
    wg,            \* app.wg counter
    hpc,           \* position of each request's handler
    err,           \* each handler's err variable, captured by its closure
    resp,          \* what each handler has written: "none", "rejected" (an error
                   \* response of an early return) or "accepted" (the 202)
    srvErr,        \* the err value each handler gave to serverErrorResponse
    tpc,           \* position of each request's detached task
    mail,          \* what app.mailer.Send returned in each detached task
    nSend,         \* send statements on shutdownError the task has reached
    nRecv,         \* values serve() has received from shutdownError
    shutdownCalls, \* calls of srv.Shutdown
    cfg,           \* app.config.limiter: enabled, rps (as rate, units per tick), burst
    now,           \* the clock, in ticks
    limiter,       \* the single rate.Limiter of globalRateLimit
    hist,          \* the calls of limiter.Allow() so far: time and result of each
    clients,       \* the clients map of rateLimit: an entry per address
    nextLid,       \* number of rate.Limiter values rateLimit has created
    mu,            \* the mutex of rateLimit: -1 free, 0 the sweep, r the request r
    tick,          \* a tick of time.Tick(time.Minute) waits in its channel
    swpc,          \* position of the sweep goroutine
    rlpc,          \* position of each request in rateLimit
    rlip,          \* realip.FromRequest(r) of each request
    rlfound,       \* the found result of each request's map lookup
    rlhist,        \* the decisions of rateLimit in order: address, time, result, limiter
    cpc,           \* the stage the request inside the middleware chain has reached
    trace,         \* the stages that request has entered, and the trailing work run for it
    started,       \* number of requests that have entered the chain
    method,        \* r.Method of that request
    origin,        \* its Origin header: "" when absent
    acrm,          \* its Access-Control-Request-Method header is present
    path,          \* the route the router matched: "" before dispatch
    authorizationHeader, \* its Authorization header as authenticate has read it
    user,          \* the user in the request context: "none" before contextSetUser
    nAttach,       \* calls of contextSetUser for the request
    observed,      \* the users that guards and handler got from contextGetUser
    written,       \* the response that set the status of the request: "" if none yet
    nWrites,       \* responses written for the request
    lookups,       \* the scopes of the calls of Users.GetForToken for the request
    nPermLookups,  \* calls of Permissions.GetAllForUser for the request
    panics,        \* panics raised while the request was processed
    ran,           \* the handler of the route has run
    header,        \* w.Header() of the request: the values under each field name
    sentHeader,    \* the header fields sent with the response, fixed at the first write
    tail,          \* the trailing accounting of metrics for each request
    totalRequestsReceived,      \* expvar total_requests_received
    totalResponsesSent,         \* expvar total_responses_sent
    totalResponsesSentbyStatus, \* expvar total_responses_sent_by_status
    stored,        \* the record of the one movie in the movies table
    upc,           \* position of each client that edits the movie
    rver,          \* the version each client got from MovieModel.Get: 0 before
    mver,          \* movie.Version of each client's Movie value
    ures,          \* what MovieModel.Update returned to each client: "none" before
    applied        \* the UPDATE statement of each client has changed the record

\* The variables of the request inside the chain, and those of the chain.
inside == <<cpc, trace, method, origin, acrm, path, authorizationHeader, user, nAttach,
            observed, written, nWrites, lookups, nPermLookups, panics, ran, header,
            sentHeader>>
counters == <<totalRequestsReceived, totalResponsesSent, totalResponsesSentbyStatus>>
chain == <<inside, started, tail, counters>>

lifecycle == <<proc, exitCode, dbClose, mainpc, serveRet, lsErr, listener, inShutdown,
               sigpc, lnerr, shutdownErr, elapsed, nSend, nRecv, shutdownCalls>>
requests == <<wg, hpc, err, resp, srvErr, tpc, mail>>
limiting == <<cfg, now, limiter, hist, clients, nextLid, mu, tick, swpc, rlpc, rlip,
              rlfound, rlhist>>
movies == <<stored, upc, rver, mver, ures, applied>>
vars == <<lifecycle, quit, requests, limiting, chain, movies>>

Running == proc = "running"

\* Requests whose handler has started and not yet returned: the connections
\* srv.Shutdown waits for.
InFlight == {r \in Reqs : hpc[r] \in {"handling", "spawned", "written"}}

\* Detached tasks registered with app.wg and not yet deregistered.
LiveTasks == {r \in Reqs : tpc[r] = "registered"}

\* The state of the process when serve() has started its signal task.
ServeInit ==
    /\ proc = "running"
    /\ exitCode = -1
    /\ dbClose = "none"
    /\ mainpc = "listen"
    /\ serveRet = "none"
    /\ lsErr = "none"
    /\ listener = "unbound"
    /\ inShutdown = FALSE
    /\ sigpc = "start"
    /\ quit = 0
    /\ lnerr = "nil"
    /\ shutdownErr = "none"
    /\ elapsed = 0
    /\ wg = 0
    /\ hpc = [r \in Reqs |-> "new"]
    /\ err = [r \in Reqs |-> "nil"]
    /\ resp = [r \in Reqs |-> "none"]
    /\ srvErr = [r \in Reqs |-> "none"]
    /\ tpc = [r \in Reqs |-> "none"]
    /\ mail = [r \in Reqs |-> "none"]
    /\ nSend = 0
    /\ nRecv = 0
    /\ shutdownCalls = 0

\* ------------------------------------------- rate.Limiter (token bucket)

Min(a, b) == IF a < b THEN a ELSE b

\* A plausible slip: the bucket is created empty.
NewLimiterEmpty(r, b) == [rate |-> r, burst |-> b, tokens |-> 0, last |-> 0]

\* rate.NewLimiter(r, b): a bucket of b tokens, initially full.
NewLimiter(r, b) == [rate |-> r, burst |-> b, tokens |-> b * TokenUnit, last |-> 0]

\* A plausible slip: the refill is not capped at the burst.
RefillUncapped(l, t) ==
    LET el == IF t > l.last THEN t - l.last ELSE 0
    IN  l.tokens + el * l.rate

\* The tokens of limiter l at time t: what it held at its last update plus
\* the refill for the time elapsed since, capped at the burst.
Refill(l, t) ==
    LET el == IF t > l.last THEN t - l.last ELSE 0
    IN  Min(l.tokens + el * l.rate, l.burst * TokenUnit)

\* A plausible slip: the call is allowed whatever the bucket holds.
AllowOkAlways(l, t) == TRUE

\* The result of l.Allow() at time t: a whole token is there to take.
AllowOk(l, t) == Refill(l, t) >= TokenUnit

\* The limiter after l.Allow() at time t: an allowed call takes one token and
\* records the time; a refused call leaves the limiter as it was.
AllowNext(l, t) ==
    IF AllowOk(l, t)
       THEN [l EXCEPT !.tokens = Refill(l, t) - TokenUnit, !.last = t]
       ELSE l

\* The zero time.Time of a client value whose lastSeen was never assigned: it
\* is further in the past than any threshold.
ZeroTime == 0 - (StaleAfter + 1)

\* A key of the clients map with no entry.
NoClient == [present |-> FALSE, lid |-> 0, lim |-> NewLimiter(0, 0), lastSeen |-> ZeroTime]

\* The state of the rate limiting of a process configured with c, before any
\* request.
LimitInit(c) ==
    /\ cfg = c
    /\ now = 0
    /\ limiter = NewLimiter(c.rate, c.burst)
    /\ hist = <<>>
    /\ clients = [ip \in IPs |-> NoClient]
    /\ nextLid = 0
    /\ mu = -1
    /\ tick = FALSE
    /\ swpc = "idle"
    /\ rlpc = [r \in RLReqs |-> "idle"]
    /\ rlip = [r \in RLReqs |-> "a"]
    /\ rlfound = [r \in RLReqs |-> FALSE]
    /\ rlhist = <<>>

\* The field names the chain sets on a response; "Connection:" is the name
\* given at middleware.go:47.
HeaderKeys ==
    {"Vary", "Access-Control-Allow-Origin", "Access-Control-Allow-Methods",
     "Access-Control-Allow-Headers", "Access-Control-Max-Age", "Connection", "Connection:"}

\* The empty http.Header.
NoHeader == [k \in HeaderKeys |-> <<>>]

\* http.Header.Set(k, v): the values under k are replaced by the one value v.
HeaderSet(h, k, v) == [h EXCEPT ![k] = <<v>>]

\* The field names net/http writes: a name with a character that is not a
\* token character, such as the colon, is skipped.
ValidHeaderFieldName(k) == k # "Connection:"

\* The header fields of h as the server writes them.
Wire(h) == [k \in HeaderKeys |-> IF ValidHeaderFieldName(k) THEN h[k] ELSE <<>>]

\* The requests that pass through the middleware chain in a run.
ChainReqs == 1..MaxRL

\* The status codes of the responses of the chain.
Statuses == {200, 401, 403, 405, 429, 500}

\* No request is inside the chain: the variables of the request hold the
\* zero values a new request starts with.
NoRequest ==
    /\ cpc = "idle"
    /\ trace = <<>>
    /\ method = ""
    /\ origin = ""
    /\ acrm = FALSE
    /\ path = ""
    /\ authorizationHeader = <<>>
    /\ user = "none"
    /\ nAttach = 0
    /\ observed = {}
    /\ written = ""
    /\ nWrites = 0
    /\ lookups = <<>>
    /\ nPermLookups = 0
    /\ panics = 0
    /\ ran = FALSE
    /\ header = NoHeader
    /\ sentHeader = NoHeader

\* middleware.go:454-466: the chain as routes() has built it, before any
\* request: the expvar counters are zero.
ChainInit ==
    /\ NoRequest
    /\ started = 0
    /\ tail = [r \in ChainReqs |-> [pc |-> "none", code |-> 0]]
    /\ totalRequestsReceived = 0
    /\ totalResponsesSent = 0
    /\ totalResponsesSentbyStatus = [c \in Statuses |-> 0]

\* The clients that edit the movie.
Updaters == 1..MaxUpdaters

\* part_001:41-66: the record Insert has created: version 1 (the default of
\* the column), and no client has read it yet. The title stands for the
\* columns an update sets: 0 as inserted, else the client that set it.
MoviesInit ==
    /\ stored = [present |-> TRUE, version |-> 1, title |-> 0]
    /\ upc = [u \in Updaters |-> "idle"]
    /\ rver = [u \in Updaters |-> 0]
    /\ mver = [u \in Updaters |-> 0]
    /\ ures = [u \in Updaters |-> "none"]
    /\ applied = [u \in Updaters |-> FALSE]

Init ==
    /\ ServeInit
    /\ MoviesInit
    /\ LimitInit([enabled |-> TRUE, rate |-> TokenUnit, burst |-> MaxBurst])
    /\ ChainInit

\* ------------------------------------------------- serve(): main goroutine

\* A plausible slip: the errors.Is test is left out and every return of
\* ListenAndServe is taken for the start of a graceful shutdown.
ListenAndServeUnchecked(e) ==
    /\ lsErr' = e
    /\ mainpc' = "recv"
    /\ serveRet' = serveRet

\* server.go:120-126: an error other than http.ErrServerClosed is returned at
\* once; on ErrServerClosed serve() goes on to receive from shutdownError.
ListenAndServeReturned(e) ==
    /\ lsErr' = e
    /\ IF e # "ErrServerClosed"
          THEN /\ mainpc' = "returned"
               /\ serveRet' = "listenerErr"
          ELSE /\ mainpc' = "recv"
               /\ serveRet' = serveRet

\* srv.ListenAndServe() is entered: it returns ErrServerClosed at once when
\* Shutdown was already called, fails when the address cannot be bound, and
\* otherwise binds the listener and serves.
MainListen ==
    /\ Running
    /\ mainpc = "listen"
    /\ IF inShutdown
          THEN /\ ListenAndServeReturned("ErrServerClosed")
               /\ UNCHANGED listener
          ELSE \/ /\ listener' = "open"
                  /\ mainpc' = "serving"
                  /\ UNCHANGED <<lsErr, serveRet>>
               \/ /\ ListenAndServeReturned("other")
                  /\ UNCHANGED listener
    /\ UNCHANGED <<proc, exitCode, dbClose, inShutdown, sigpc, lnerr, shutdownErr, elapsed,
                   nSend, nRecv, shutdownCalls, quit, requests, limiting, chain, movies>>

\* The accept loop fails with a non-temporary error while the server is not
\* shutting down: Serve closes its listener and returns that error.
MainServeFails ==
    /\ Running
    /\ mainpc = "serving"
    /\ ~inShutdown
    /\ listener' = "closed"
    /\ ListenAndServeReturned("other")
    /\ UNCHANGED <<proc, exitCode, dbClose, inShutdown, sigpc, lnerr, shutdownErr, elapsed,
                   nSend, nRecv, shutdownCalls, quit, requests, limiting, chain, movies>>

\* Shutdown() was called: ListenAndServe returns ErrServerClosed immediately.
MainServeClosed ==
    /\ Running
    /\ mainpc = "serving"
    /\ inShutdown
    /\ ListenAndServeReturned("ErrServerClosed")
    /\ UNCHANGED <<proc, exitCode, dbClose, listener, inShutdown, sigpc, lnerr, shutdownErr,
                   elapsed, nSend, nRecv, shutdownCalls, quit, requests, limiting, chain, movies>>

\* A plausible slip: serve() returns nil after ErrServerClosed without
\* receiving from shutdownError, and the sender stays blocked at its send.
MainRecvSkipped ==
    /\ Running
    /\ mainpc = "recv"
    /\ nRecv' = nRecv
    /\ serveRet' = "nil"
    /\ sigpc' = sigpc
    /\ mainpc' = "returned"
    /\ UNCHANGED <<proc, exitCode, dbClose, lsErr, listener, inShutdown, lnerr, shutdownErr,
                   elapsed, nSend, shutdownCalls, quit, requests, limiting, chain, movies>>

\* err = <-shutdownError; if err != nil { return err }; ...; return nil.
\* The channel is unbuffered: the receive pairs with a sender blocked at a send.
MainRecv ==
    /\ Running
    /\ mainpc = "recv"
    /\ sigpc \in {"sendErr", "sendNil"}
    /\ nRecv' = nRecv + 1
    /\ serveRet' = IF sigpc = "sendErr" THEN shutdownErr ELSE "nil"
    /\ sigpc' = IF sigpc = "sendErr" THEN "wait" ELSE "done"
    /\ mainpc' = "returned"
    /\ UNCHANGED <<proc, exitCode, dbClose, lsErr, listener, inShutdown, lnerr, shutdownErr,
                   elapsed, nSend, shutdownCalls, quit, requests, limiting, chain, movies>>

\* A plausible slip: the error of serve() is logged with PrintError, which
\* does not end the process, and main returns normally.
MainExitLogsOnly ==
    /\ Running
    /\ mainpc = "returned"
    /\ proc' = "exited"
    /\ \E res \in {"nil", "err"} :
          /\ dbClose' = res
          /\ exitCode' = IF res = "err" THEN FatalExit ELSE 0
    /\ UNCHANGED <<mainpc, serveRet, lsErr, listener, inShutdown, sigpc, lnerr,
                   shutdownErr, elapsed, nSend, nRecv, shutdownCalls, quit, requests, limiting, chain, movies>>

\* main() after serve() returned: a non-nil error goes to logger.PrintFatal,
\* which calls os.Exit(1) (the deferred db.Close() does not run); on nil main
\* returns, the deferred db.Close() runs and its failure is PrintFatal too.
MainExit ==
    /\ Running
    /\ mainpc = "returned"
    /\ proc' = "exited"
    /\ IF serveRet # "nil"
          THEN /\ exitCode' = FatalExit
               /\ dbClose' = dbClose
          ELSE \E res \in {"nil", "err"} :
                  /\ dbClose' = res
                  /\ exitCode' = IF res = "err" THEN FatalExit ELSE 0
    /\ UNCHANGED <<mainpc, serveRet, lsErr, listener, inShutdown, sigpc, lnerr,
                   shutdownErr, elapsed, nSend, nRecv, shutdownCalls, quit, requests, limiting, chain, movies>>

\* ------------------------------------- serve(): signal-handling goroutine

\* signal.Notify(quit, syscall.SIGINT, syscall.SIGTERM)
SigNotify ==
    /\ Running
    /\ sigpc = "start"
    /\ sigpc' = "waitquit"
    /\ UNCHANGED <<proc, exitCode, dbClose, mainpc, serveRet, lsErr, listener, inShutdown,
                   lnerr, shutdownErr, elapsed, nSend, nRecv, shutdownCalls, quit,
                   requests, limiting, chain, movies>>

\* A SIGINT or SIGTERM is delivered to the process. Before signal.Notify has
\* registered the channel the default behaviour terminates the process; after
\* it the runtime does a non-blocking send to quit, dropped when quit is full.
Signal ==
    /\ Running
    /\ IF sigpc = "start"
          THEN /\ proc' = "killed"
               /\ quit' = quit
          ELSE /\ proc' = proc
               /\ quit' = IF quit < QuitCap THEN quit + 1 ELSE quit
    /\ UNCHANGED <<exitCode, dbClose, mainpc, serveRet, lsErr, listener, inShutdown, sigpc,
                   lnerr, shutdownErr, elapsed, nSend, nRecv, shutdownCalls,
                   requests, limiting, chain, movies>>

\* A plausible slip: the task receives from quit in a loop, so that a signal
\* delivered while it waits for the background tasks starts the drain again.
SigRecvLoop ==
    /\ Running
    /\ sigpc \in {"waitquit", "wait"}
    /\ quit > 0
    /\ quit' = quit - 1
    /\ sigpc' = "caught"
    /\ UNCHANGED <<proc, exitCode, dbClose, mainpc, serveRet, lsErr, listener, inShutdown,
                   lnerr, shutdownErr, elapsed, nSend, nRecv, shutdownCalls,
                   requests, limiting, chain, movies>>

\* s := <-quit, then the "caught signal" log entry
SigRecv ==
    /\ Running
    /\ sigpc = "waitquit"
    /\ quit > 0
    /\ quit' = quit - 1
    /\ sigpc' = "caught"
    /\ UNCHANGED <<proc, exitCode, dbClose, mainpc, serveRet, lsErr, listener, inShutdown,
                   lnerr, shutdownErr, elapsed, nSend, nRecv, shutdownCalls,
                   requests, limiting, chain, movies>>

\* A plausible slip: the drain is started without closing the listener (the
\* task only marks the server as shutting down).
SigShutdownCallListenerOpen ==
    /\ Running
    /\ sigpc = "caught"
    /\ sigpc' = "shutdown"
    /\ inShutdown' = TRUE
    /\ shutdownCalls' = shutdownCalls + 1
    /\ elapsed' = 0
    /\ UNCHANGED <<proc, exitCode, dbClose, mainpc, serveRet, lsErr, listener, lnerr,
                   shutdownErr, nSend, nRecv, quit, requests, limiting, chain, movies>>

\* ctx with the 5-second timeout is created and srv.Shutdown(ctx) is entered:
\* it sets inShutdown and closes the listener, then polls for idle connections.
SigShutdownCall ==
    /\ Running
    /\ sigpc = "caught"
    /\ sigpc' = "shutdown"
    /\ inShutdown' = TRUE
    /\ shutdownCalls' = shutdownCalls + 1
    /\ elapsed' = 0
    /\ IF listener = "open"
          THEN /\ listener' = "closed"
               /\ lnerr' \in {"nil", "closeErr"}
          ELSE UNCHANGED <<listener, lnerr>>
    /\ UNCHANGED <<proc, exitCode, dbClose, mainpc, serveRet, lsErr, shutdownErr, nSend,
                   nRecv, quit, requests, limiting, chain, movies>>

\* The 5-second deadline of ctx passes while Shutdown polls.
GraceExpires ==
    /\ Running
    /\ sigpc = "shutdown"
    /\ elapsed < GracePeriod
    /\ elapsed' = GracePeriod
    /\ UNCHANGED <<proc, exitCode, dbClose, mainpc, serveRet, lsErr, listener, inShutdown,
                   sigpc, lnerr, shutdownErr, nSend, nRecv, shutdownCalls, quit,
                   requests, limiting, chain, movies>>

\* A plausible slip: the listener shutdown is made to wait for the background
\* tasks as well (the wait is placed before or inside the bounded drain).
ShutdownWaitsForTasks(e) ==
    /\ wg = 0
    /\ \/ /\ InFlight = {}
          /\ e = lnerr
       \/ /\ elapsed = GracePeriod
          /\ e = "deadline"

\* A plausible slip: the server is stopped with a call that does not wait
\* for the connections to become idle.
ShutdownReturnsAtOnce(e) == e = lnerr

\* The condition under which srv.Shutdown(ctx) returns e: the listener-close
\* error (nil when it closed cleanly) once every connection is idle, or the
\* context's error once the deadline has passed.
ShutdownMayReturn(e) ==
    \/ /\ InFlight = {}
       /\ e = lnerr
    \/ /\ elapsed = GracePeriod
       /\ e = "deadline"

\* err := srv.Shutdown(ctx) returns; if err != nil the task goes to the send
\* shutdownError <- err, else to app.wg.Wait().
SigShutdownReturn ==
    /\ Running
    /\ sigpc = "shutdown"
    /\ \E e \in {"nil", "closeErr", "deadline"} :
          /\ ShutdownMayReturn(e)
          /\ shutdownErr' = e
          /\ IF e # "nil"
                THEN /\ sigpc' = "sendErr"
                     /\ nSend' = nSend + 1
                ELSE /\ sigpc' = "wait"
                     /\ nSend' = nSend
    /\ UNCHANGED <<proc, exitCode, dbClose, mainpc, serveRet, lsErr, listener, inShutdown,
                   lnerr, elapsed, nRecv, shutdownCalls, quit, requests, limiting, chain, movies>>

\* A plausible slip: the task does not wait for the background tasks.
WaitSkipped == TRUE

\* The condition under which app.wg.Wait() returns.
WaitReturns == wg = 0

\* app.wg.Wait() returns and the task reaches shutdownError <- nil.
SigWait ==
    /\ Running
    /\ sigpc = "wait"
    /\ WaitReturns
    /\ sigpc' = "sendNil"
    /\ nSend' = nSend + 1
    /\ UNCHANGED <<proc, exitCode, dbClose, mainpc, serveRet, lsErr, listener, inShutdown,
                   lnerr, shutdownErr, elapsed, nRecv, shutdownCalls, quit,
                   requests, limiting, chain, movies>>

\* ------------------------------------------------ app.background(fn)

\* app.background(fn): the task is registered with app.wg (Add(1)) in the
\* caller's goroutine, before the goroutine that runs fn is started.
Background(r) ==
    /\ wg' = wg + 1
    /\ tpc' = [tpc EXCEPT ![r] = "registered"]

\* The deferred app.wg.Done() of the goroutine started by app.background: it
\* runs when fn has returned, whatever fn did.
BackgroundDone(r) ==
    /\ wg' = wg - 1
    /\ tpc' = [tpc EXCEPT ![r] = "done"]

\* ------------- createActivationTokenHandler, createPasswordResetTokenHandler
\* (the two handlers have the same shape; one model serves both)

\* The server accepts a connection and starts the request's handler. Requests
\* are numbered in the order in which they are accepted.
Accept(r) ==
    /\ Running
    /\ listener = "open"
    /\ hpc[r] = "new"
    /\ \A q \in 1..(r - 1) : hpc[q] # "new"
    /\ hpc' = [hpc EXCEPT ![r] = "handling"]
    /\ UNCHANGED <<lifecycle, quit, limiting, chain, wg, err, resp, srvErr, tpc, mail, movies>>

\* An early return of the handler: bad request, failed validation, unknown
\* e-mail, wrong activation state, or a failure to create the token.
HandlerReject(r) ==
    /\ Running
    /\ hpc[r] = "handling"
    /\ hpc' = [hpc EXCEPT ![r] = "done"]
    /\ resp' = [resp EXCEPT ![r] = "rejected"]
    /\ UNCHANGED <<lifecycle, quit, limiting, chain, wg, err, srvErr, tpc, mail, movies>>

\* A plausible slip: the closure is started with a plain go statement, so
\* the task is not registered with app.wg.
SpawnUntracked(r) ==
    /\ wg' = wg
    /\ tpc' = [tpc EXCEPT ![r] = "registered"]

\* The statement app.background(func() { ... }) of the handler.
SpawnDetached(r) == Background(r)

\* The token was created (err is nil) and the handler spawns the mail task.
HandlerSpawn(r) ==
    /\ Running
    /\ hpc[r] = "handling"
    /\ hpc' = [hpc EXCEPT ![r] = "spawned"]
    /\ SpawnDetached(r)
    /\ UNCHANGED <<lifecycle, quit, limiting, chain, err, resp, srvErr, mail, movies>>

\* err = app.writeJSON(w, http.StatusAccepted, env, nil): on success the 202
\* response has been written, on failure nothing has.
HandlerWriteJSON(r) ==
    /\ Running
    /\ hpc[r] = "spawned"
    /\ hpc' = [hpc EXCEPT ![r] = "written"]
    /\ \E res \in {"nil", "writeErr"} :
          /\ err' = [err EXCEPT ![r] = res]
          /\ resp' = [resp EXCEPT ![r] = IF res = "nil" THEN "accepted" ELSE resp[r]]
    /\ UNCHANGED <<lifecycle, quit, limiting, chain, wg, srvErr, tpc, mail, movies>>

\* if err != nil { app.serverErrorResponse(w, r, err) }, then the handler returns.
HandlerCheck(r) ==
    /\ Running
    /\ hpc[r] = "written"
    /\ hpc' = [hpc EXCEPT ![r] = "done"]
    /\ srvErr' = [srvErr EXCEPT ![r] = IF err[r] # "nil" THEN err[r] ELSE srvErr[r]]
    /\ UNCHANGED <<lifecycle, quit, limiting, chain, wg, err, resp, tpc, mail, movies>>

\* The body of the detached task: err = app.mailer.Send(...) assigns the
\* handler's own err variable (the closure captures it; the access is not
\* synchronised with the handler), and a failure is logged with PrintError.
TaskBody(r) ==
    \E res \in {"nil", "sendErr"} :
       /\ mail' = [mail EXCEPT ![r] = res]
       /\ err' = [err EXCEPT ![r] = res]

\* The goroutine of one detached task: fn(), then the deferred Done.
TaskRun(r) ==
    /\ Running
    /\ tpc[r] = "registered"
    /\ TaskBody(r)
    /\ BackgroundDone(r)
    /\ UNCHANGED <<lifecycle, quit, limiting, chain, hpc, resp, srvErr, movies>>

\* ------------------------------------------------------- specification

Next ==
    \/ MainListen
    \/ MainServeFails
    \/ MainServeClosed
    \/ MainRecv
    \/ MainExit
    \/ SigNotify
    \/ Signal
    \/ SigRecv
    \/ SigShutdownCall
    \/ GraceExpires
    \/ SigShutdownReturn
    \/ SigWait
    \/ \E r \in Reqs : Accept(r)
    \/ \E r \in Reqs : HandlerReject(r)
    \/ \E r \in Reqs : HandlerSpawn(r)
    \/ \E r \in Reqs : HandlerWriteJSON(r)
    \/ \E r \in Reqs : HandlerCheck(r)
    \/ \E r \in Reqs : TaskRun(r)

Spec == Init /\ [][Next]_vars

\* ------------------------------------------------------------ properties

\* serve() returned the outcome of the drain (it received it from
\* shutdownError) rather than a fatal listener error.
DrainOutcomeReturned == mainpc = "returned" /\ lsErr = "ErrServerClosed"

\* C1: serve() returns nil (Completed) only in a state where the
\* background-task count is zero and no registered task is outstanding; so
\* while a task spawned before the wait has not completed, Completed is not
\* reported.
C1_CompletedOnlyAtZero ==
    serveRet = "nil" => (wg = 0 /\ LiveTasks = {})

\* C1 witness: Completed was reported in a run in which a detached task was
\* spawned and has run to its end.
C1_Witness ==
    /\ serveRet = "nil"
    /\ \E r \in Reqs : tpc[r] = "done"

\* C2 (the claim as stated): once the drain has started, serve() does not
\* return its outcome to main while the background-task count is non-zero,
\* also when srv.Shutdown returned an error.
C2_NoReturnWhileTasksOutstanding ==
    [][(mainpc = "recv" /\ mainpc' = "returned") => wg = 0]_vars

\* C3 (the claim as stated): the signal-handling task reaches at most one send
\* on shutdownError, serve() receives at most one value, and it has received
\* exactly one when it returns after ErrServerClosed.
C3_ExactlyOneOutcome ==
    /\ nSend <= 1
    /\ nRecv <= 1
    /\ DrainOutcomeReturned => nRecv = 1

\* A signal delivered after the first one: the task has already taken a
\* signal from quit, or the first one is still buffered there.
LaterSignal ==
    /\ Signal
    /\ \/ sigpc \notin {"start", "waitquit"}
       \/ quit > 0

\* C4: srv.Shutdown is called at most once, the server is shutting down only
\* through that one call, and a signal delivered after the first one neither
\* restarts the drain nor ends the process: it leaves the lifecycle and the
\* requests as they are (at most it is buffered in quit, which is never read
\* again).
C4_ShutdownBeginsOnce ==
    [][ /\ shutdownCalls' <= 1
        /\ inShutdown' => shutdownCalls' = 1
        /\ LaterSignal => UNCHANGED <<lifecycle, requests, movies>> ]_vars

\* C4 witness: the drain has started once and a further signal has been
\* delivered since (it sits in quit).
C4_Witness ==
    /\ shutdownCalls = 1
    /\ quit = 1

\* C5: after ListenAndServe returned an error other than ErrServerClosed,
\* serve() has returned that error and has received nothing from
\* shutdownError; after ErrServerClosed it is waiting for the outcome or has
\* returned the one value it received.
C5_ListenerErrorHandling ==
    /\ lsErr = "other" =>
          /\ mainpc = "returned"
          /\ serveRet = "listenerErr"
          /\ nRecv = 0
    /\ lsErr = "ErrServerClosed" =>
          \/ /\ mainpc = "recv"
             /\ serveRet = "none"
             /\ nRecv = 0
          \/ /\ mainpc = "returned"
             /\ serveRet \in {"nil", "deadline", "closeErr"}
             /\ nRecv = 1

\* C5 witness: serve() returned a fatal listener error while a background
\* task was still registered and the signal task had a caught signal.
C5_Witness ==
    /\ lsErr = "other"
    /\ mainpc = "returned"
    /\ wg > 0
    /\ sigpc = "caught"

\* C6: the background-task count equals the number of detached tasks that
\* are registered and have not finished: a task is counted from the spawn
\* statement on, before its body runs, and is taken off the count exactly
\* once when its body has ended, whether or not the mail send failed and was
\* logged. The body has run only for tasks that were registered.
C6_TaskCounted ==
    /\ wg = Cardinality(LiveTasks)
    /\ \A r \in Reqs :
          /\ mail[r] # "none" <=> tpc[r] = "done"
          /\ hpc[r] \in {"spawned", "written"} => tpc[r] # "none"

\* C6 witness: a task whose mail send failed (and was logged) has finished
\* and is off the count, while another task is still counted.
C6_Witness ==
    /\ \E r \in Reqs : tpc[r] = "done" /\ mail[r] = "sendErr"
    /\ wg = 1

\* C7 (the claim as stated): no handler gives the error of the mail send of
\* its detached task to serverErrorResponse; the response is decided by
\* writeJSON alone.
C7_MailFailureNotSurfaced ==
    \A r \in Reqs : srvErr[r] # "sendErr"

\* C8: while srv.Shutdown runs, its return never depends on the background
\* tasks: the deadline of five seconds can always pass, and once every
\* connection is idle or the deadline has passed Shutdown can return,
\* whatever the background-task count is; and the task is at or past
\* app.wg.Wait() only after srv.Shutdown has returned.
C8_BoundedDrainThenWait ==
    /\ (Running /\ sigpc = "shutdown") =>
          /\ elapsed \in {0, GracePeriod}
          /\ elapsed < GracePeriod => ENABLED GraceExpires
          /\ (InFlight = {} \/ elapsed = GracePeriod) => ENABLED SigShutdownReturn
    /\ sigpc \in {"sendErr", "wait", "sendNil", "done"} =>
          /\ shutdownErr # "none"
          /\ shutdownCalls = 1

\* C8 witness: Shutdown has returned by its deadline with a request still in
\* flight and a background task outstanding, and the task has gone on to the
\* wait.
C8_Witness ==
    /\ sigpc = "wait"
    /\ shutdownErr = "deadline"
    /\ wg > 0
    /\ InFlight # {}

\* No connection is accepted in this step.
NoAccept == \A r \in Reqs : hpc[r] = "new" => hpc'[r] = "new"

\* The process ends in this step, through main, with requests still in
\* flight: those requests are cut off.
CutOff ==
    /\ proc = "running"
    /\ proc' = "exited"
    /\ InFlight # {}

\* The grace period has expired and srv.Shutdown has returned for that reason.
GraceExpired == elapsed = GracePeriod /\ shutdownErr = "deadline"

\* C9 (the claim as stated): once the signal-handling task has received a
\* termination signal no connection is accepted, and from then on requests
\* are cut off only when the grace period has expired with them in flight.
C9_NoAcceptAfterSignal ==
    [][ sigpc \notin {"start", "waitquit"} =>
           /\ NoAccept
           /\ CutOff => GraceExpired ]_vars

\* C9 (amended): once srv.Shutdown has been called no connection is
\* accepted, and when serve() returns the outcome of the drain (it did not
\* abort on a fatal listener error) requests are cut off only when the grace
\* period has expired with them in flight.
C9_NoAcceptAfterShutdown ==
    [][ inShutdown =>
           /\ NoAccept
           /\ (CutOff /\ lsErr = "ErrServerClosed") => GraceExpired ]_vars

\* C9 witness: the process has ended after a drain in which one request
\* finished with its 202 response and another was still in flight when the
\* grace period expired.
C9_Witness ==
    /\ proc = "exited"
    /\ shutdownErr = "deadline"
    /\ \E r \in Reqs : hpc[r] = "done" /\ resp[r] = "accepted" /\ srvErr[r] = "none"
    /\ InFlight # {}

\* C10 (the claim as stated): the exit status is 0 exactly when serve()
\* returned nil.
C10_ExitZeroIffCompleted ==
    proc = "exited" => (exitCode = 0 <=> serveRet = "nil")

\* C10 (amended): the exit status is 0 exactly when serve() returned nil and
\* the deferred db.Close() succeeded; it is 1 whenever serve() returned an
\* error (db.Close() is then not run), and 1 when db.Close() failed.
C10_ExitStatus ==
    proc = "exited" =>
       /\ exitCode \in {0, FatalExit}
       /\ exitCode = 0 <=> (serveRet = "nil" /\ dbClose = "nil")
       /\ serveRet # "nil" => (exitCode = FatalExit /\ dbClose = "none")

\* C10 witness: serve() returned nil and the process exited with status 1.
C10_Witness ==
    /\ proc = "exited"
    /\ serveRet = "nil"
    /\ exitCode = FatalExit

\* ------------------------------------------------------------------ C11

\* The lifecycle state of serve(): Terminated once serve() has returned or
\* the process is gone, Draining from the moment the signal task has received
\* a signal, Serving while the listener is bound and accepting, Starting
\* before that.
LState ==
    IF ~Running \/ mainpc = "returned" THEN "Terminated"
    ELSE IF sigpc \notin {"start", "waitquit"} THEN "Draining"
    ELSE IF mainpc = "serving" THEN "Serving"
    ELSE "Starting"

LRank(st) ==
    CASE st = "Starting" -> 0
      [] st = "Serving" -> 1
      [] st = "Draining" -> 2
      [] st = "Terminated" -> 3

\* The lifecycle never moves back to an earlier state.
LifecycleForwardOnly == [][LRank(LState') >= LRank(LState)]_vars

\* Serving is entered only by a step that binds the listener.
ServingOnlyAfterBind ==
    [][(LState' = "Serving" /\ LState # "Serving")
          => (LState = "Starting" /\ listener = "unbound" /\ listener' = "open")]_vars

\* C11: the lifecycle of serve() only moves forward along Starting, Serving,
\* Draining, Terminated; Serving is entered only by a successful bind of the
\* listener, and Draining is entered only from Serving, so that a signal
\* received before the listener is bound does not start the drain.
C11_DrainingOnlyFromServing ==
    [][/\ LRank(LState') >= LRank(LState)
       /\ (LState' = "Serving" /\ LState # "Serving")
             => (LState = "Starting" /\ listener' = "open")
       /\ (LState' = "Draining" /\ LState # "Draining") => LState = "Serving"]_vars

\* ------------------------------------------- one limiter, called in sequence

\* The configurations of the limiter a run may start with.
Configs == [enabled : BOOLEAN, rate : Rates, burst : 1..MaxBurst]

\* Time passes; each minute the ticker of the sweep fires (a tick that finds
\* the previous one still in its channel is dropped).
Advance ==
    /\ now < MaxNow
    /\ now' = now + 1
    /\ tick' = IF (now + 1) % SweepEvery = 0 THEN TRUE ELSE tick
    /\ UNCHANGED <<lifecycle, quit, requests, chain, cfg, limiter, hist, clients, nextLid, mu,
                   swpc, rlpc, rlip, rlfound, rlhist, movies>>

\* middleware.go:103: a request reaches globalRateLimit and limiter.Allow()
\* is called on the one limiter.
GlobalAllow ==
    /\ Len(hist) < MaxCalls
    /\ hist' = Append(hist, [t |-> now, ok |-> AllowOk(limiter, now)])
    /\ limiter' = AllowNext(limiter, now)
    /\ UNCHANGED <<lifecycle, quit, requests, chain, cfg, now, clients, nextLid, mu, tick,
                   swpc, rlpc, rlip, rlfound, rlhist, movies>>

InitLimiter ==
    /\ ServeInit
    /\ MoviesInit
    /\ ChainInit
    /\ \E c \in Configs : c.enabled /\ LimitInit(c)

NextLimiter ==
    \/ Advance
    \/ GlobalAllow

SpecLimiter == InitLimiter /\ [][NextLimiter]_vars

\* ------------------------------------------------------------------ C18

\* C18: on a fresh limiter of capacity C, of the calls of allow made with no
\* time elapsing exactly the first C return true, and every later one false;
\* with capacity 4 and 5 calls: true, true, true, true, false.
C18_FirstBurstAdmitted ==
    \A k \in 1..Len(hist) :
        hist[k].t = 0 => (hist[k].ok <=> k <= cfg.burst)

C18_Witness ==
    /\ cfg.burst = 4
    /\ Len(hist) >= 5
    /\ hist[5].t = 0
    /\ \A k \in 1..4 : hist[k].ok
    /\ ~hist[5].ok

\* ------------------------------------------------------------------ C19

\* The calls of hist[i..j] that returned true.
Admitted(i, j) == Cardinality({k \in i..j : hist[k].ok})

\* C19: in any window of T ticks the number of calls that return true is at
\* most C + R*T (in units: one token is TokenUnit, R is units per tick).
C19_WindowBound ==
    \A i \in 1..Len(hist) : \A j \in i..Len(hist) :
        Admitted(i, j) * TokenUnit
            <= limiter.burst * TokenUnit + limiter.rate * (hist[j].t - hist[i].t)

\* A window of positive length in which the bound is met exactly.
C19_Witness ==
    \E i \in 1..Len(hist) : \E j \in i..Len(hist) :
        /\ hist[j].t > hist[i].t
        /\ Admitted(i, j) > limiter.burst
        /\ Admitted(i, j) * TokenUnit
              = limiter.burst * TokenUnit + limiter.rate * (hist[j].t - hist[i].t)

\* ------------------------------------------------------------------ C20

\* C20: the tokens of a limiter, as stored and as refilled to the present,
\* are between 0 and the capacity after every step, and a call of allow that
\* returns false does not lower them.
C20_TokensInRange ==
    /\ [](/\ limiter.tokens >= 0
          /\ limiter.tokens <= limiter.burst * TokenUnit
          /\ Refill(limiter, now) >= 0
          /\ Refill(limiter, now) <= limiter.burst * TokenUnit)
    /\ [][(Len(hist') > Len(hist) /\ ~hist'[Len(hist')].ok)
            => /\ limiter'.tokens >= limiter.tokens
               /\ Refill(limiter', now') >= Refill(limiter, now)]_vars

\* A refused call has been made and the bucket has since refilled to the cap.
C20_Witness ==
    /\ \E k \in 1..Len(hist) : ~hist[k].ok /\ hist[k].t < now
    /\ limiter.tokens < limiter.burst * TokenUnit
    /\ Refill(limiter, now) = limiter.burst * TokenUnit
    /\ limiter.tokens + (now - limiter.last) * limiter.rate > limiter.burst * TokenUnit

\* ------------------------------------------- rateLimit: one limiter per client

\* A plausible slip: every request is looked up under one key.
KeyShared(r) == "a"

\* middleware.go:172: the key of the clients map a request is looked up
\* under is its client address.
Key(r) == rlip[r]

\* A plausible slip: an entry is stale as soon as it reaches the threshold.
StaleAtThreshold(e) == now - e.lastSeen >= StaleAfter

\* A plausible slip: the sweep deletes every entry, whatever its lastSeen.
StaleAlways(e) == TRUE

\* middleware.go:151: time.Since(client.lastSeen) > 3*time.Minute
Stale(e) == now - e.lastSeen > StaleAfter

\* A plausible slip: the limiter is consulted also when it is switched off.
RLStartAlwaysLimited(r, ip) ==
    /\ rlpc[r] = "idle"
    /\ \A q \in 1..(r - 1) : rlpc[q] # "idle"
    /\ rlip' = [rlip EXCEPT ![r] = ip]
    /\ rlpc' = [rlpc EXCEPT ![r] = "lock"]
    /\ UNCHANGED <<lifecycle, quit, requests, chain, cfg, now, limiter, hist, clients, nextLid,
                   mu, tick, swpc, rlfound, rlhist, movies>>

\* middleware.go:161-172, 202: a request from address ip enters the handler
\* (requests are numbered in the order they enter). With the limiter switched
\* off it goes straight to the next handler.
RLStart(r, ip) ==
    /\ rlpc[r] = "idle"
    /\ \A q \in 1..(r - 1) : rlpc[q] # "idle"
    /\ rlip' = [rlip EXCEPT ![r] = ip]
    /\ rlpc' = [rlpc EXCEPT ![r] = IF cfg.enabled THEN "lock" ELSE "next"]
    /\ UNCHANGED <<lifecycle, quit, requests, chain, cfg, now, limiter, hist, clients, nextLid,
                   mu, tick, swpc, rlfound, rlhist, movies>>

\* A plausible slip: the handler goes on without taking the mutex.
RLLockNoMutex(r) ==
    /\ rlpc[r] = "lock"
    /\ rlpc' = [rlpc EXCEPT ![r] = "lookup"]
    /\ UNCHANGED <<lifecycle, quit, requests, chain, cfg, now, limiter, hist, clients, nextLid,
                   mu, tick, swpc, rlip, rlfound, rlhist, movies>>

\* middleware.go:175: mu.Lock()
RLLock(r) ==
    /\ rlpc[r] = "lock"
    /\ mu = -1
    /\ mu' = r
    /\ rlpc' = [rlpc EXCEPT ![r] = "lookup"]
    /\ UNCHANGED <<lifecycle, quit, requests, chain, cfg, now, limiter, hist, clients, nextLid,
                   tick, swpc, rlip, rlfound, rlhist, movies>>

\* middleware.go:179: _, found := clients[ip]
RLLookup(r) ==
    /\ rlpc[r] = "lookup"
    /\ rlfound' = [rlfound EXCEPT ![r] = clients[Key(r)].present]
    /\ rlpc' = [rlpc EXCEPT ![r] = "insert"]
    /\ UNCHANGED <<lifecycle, quit, requests, chain, cfg, now, limiter, hist, clients, nextLid,
                   mu, tick, swpc, rlip, rlhist, movies>>

\* The entry of a client seen for the first time: a new limiter made from
\* the configuration, and a lastSeen not yet assigned.
NewClient(id) ==
    [present |-> TRUE, lid |-> id, lim |-> NewLimiter(cfg.rate, cfg.burst),
     lastSeen |-> ZeroTime]

\* A plausible slip: the entry is made anew for every request.
RLInsertAlways(r) ==
    /\ rlpc[r] = "insert"
    /\ clients' = [clients EXCEPT ![Key(r)] = NewClient(nextLid + 1)]
    /\ nextLid' = nextLid + 1
    /\ rlfound' = [rlfound EXCEPT ![r] = FALSE]
    /\ rlpc' = [rlpc EXCEPT ![r] = "seen"]
    /\ UNCHANGED <<lifecycle, quit, requests, chain, cfg, now, limiter, hist, mu, tick, swpc,
                   rlip, rlhist, movies>>

\* middleware.go:179-183: if the address was not found, an entry with a new
\* limiter is put in the map; found goes out of scope with the if statement.
RLInsert(r) ==
    /\ rlpc[r] = "insert"
    /\ IF rlfound[r]
          THEN UNCHANGED <<clients, nextLid>>
          ELSE /\ clients' = [clients EXCEPT ![Key(r)] = NewClient(nextLid + 1)]
               /\ nextLid' = nextLid + 1
    /\ rlfound' = [rlfound EXCEPT ![r] = FALSE]
    /\ rlpc' = [rlpc EXCEPT ![r] = "seen"]
    /\ UNCHANGED <<lifecycle, quit, requests, chain, cfg, now, limiter, hist, mu, tick, swpc,
                   rlip, rlhist, movies>>

\* A plausible slip: lastSeen is assigned only when the entry is created, and
\* a request that finds its entry leaves it as it is.
RLSeenSkipped(r) ==
    /\ rlpc[r] = "seen"
    /\ IF clients[Key(r)].present
          THEN /\ clients' = [clients EXCEPT ![Key(r)].lastSeen =
                                IF @ = ZeroTime THEN now ELSE @]
               /\ rlpc' = [rlpc EXCEPT ![r] = "allow"]
          ELSE /\ clients' = clients
               /\ rlpc' = [rlpc EXCEPT ![r] = "panic"]
    /\ UNCHANGED <<lifecycle, quit, requests, chain, cfg, now, limiter, hist, nextLid, mu, tick,
                   swpc, rlip, rlfound, rlhist, movies>>

\* middleware.go:186: clients[ip].lastSeen = time.Now(); with no entry under
\* the key the assignment dereferences a nil pointer and the handler panics.
RLSeen(r) ==
    /\ rlpc[r] = "seen"
    /\ IF clients[Key(r)].present
          THEN /\ clients' = [clients EXCEPT ![Key(r)].lastSeen = now]
               /\ rlpc' = [rlpc EXCEPT ![r] = "allow"]
          ELSE /\ clients' = clients
               /\ rlpc' = [rlpc EXCEPT ![r] = "panic"]
    /\ UNCHANGED <<lifecycle, quit, requests, chain, cfg, now, limiter, hist, nextLid, mu, tick,
                   swpc, rlip, rlfound, rlhist, movies>>

\* middleware.go:191: clients[ip].limiter.Allow()
RLAllow(r) ==
    /\ rlpc[r] = "allow"
    /\ LET e == clients[Key(r)]
       IN  IF e.present
              THEN /\ clients' = [clients EXCEPT ![Key(r)].lim = AllowNext(e.lim, now)]
                   /\ rlhist' = Append(rlhist, [ip |-> rlip[r], t |-> now,
                                                ok |-> AllowOk(e.lim, now), lid |-> e.lid])
                   /\ rlpc' = [rlpc EXCEPT ![r] =
                                 IF AllowOk(e.lim, now) THEN "admitted" ELSE "refused"]
              ELSE /\ UNCHANGED <<clients, rlhist>>
                   /\ rlpc' = [rlpc EXCEPT ![r] = "panic"]
    /\ UNCHANGED <<lifecycle, quit, requests, chain, cfg, now, limiter, hist, nextLid, mu, tick,
                   swpc, rlip, rlfound, movies>>

\* A plausible slip: the refusal is written without releasing the mutex.
RLRejectNoUnlock(r) ==
    /\ rlpc[r] = "refused"
    /\ rlpc' = [rlpc EXCEPT ![r] = "rejecting"]
    /\ UNCHANGED <<lifecycle, quit, requests, chain, cfg, now, limiter, hist, clients, nextLid,
                   mu, tick, swpc, rlip, rlfound, rlhist, movies>>

\* middleware.go:192: mu.Unlock() on the refusal path.
RLRejectUnlock(r) ==
    /\ rlpc[r] = "refused"
    /\ mu' = -1
    /\ rlpc' = [rlpc EXCEPT ![r] = "rejecting"]
    /\ UNCHANGED <<lifecycle, quit, requests, chain, cfg, now, limiter, hist, clients, nextLid,
                   tick, swpc, rlip, rlfound, rlhist, movies>>

\* middleware.go:193-194: the 429 response is written and the handler returns.
RLReject(r) ==
    /\ rlpc[r] = "rejecting"
    /\ rlpc' = [rlpc EXCEPT ![r] = "rejected"]
    /\ UNCHANGED <<lifecycle, quit, requests, chain, cfg, now, limiter, hist, clients, nextLid,
                   mu, tick, swpc, rlip, rlfound, rlhist, movies>>

\* middleware.go:200-202: mu.Unlock() on the admission path; the request is
\* then in next.ServeHTTP for as long as the next handler takes.
RLAdmitUnlock(r) ==
    /\ rlpc[r] = "admitted"
    /\ mu' = -1
    /\ rlpc' = [rlpc EXCEPT ![r] = "next"]
    /\ UNCHANGED <<lifecycle, quit, requests, chain, cfg, now, limiter, hist, clients, nextLid,
                   tick, swpc, rlip, rlfound, rlhist, movies>>

\* A plausible slip: the sweep goes through the map without the mutex.
SweepLockNoMutex ==
    /\ swpc = "idle"
    /\ tick
    /\ tick' = FALSE
    /\ swpc' = "scan"
    /\ UNCHANGED <<lifecycle, quit, requests, chain, cfg, now, limiter, hist, clients, nextLid,
                   mu, rlpc, rlip, rlfound, rlhist, movies>>

\* middleware.go:135-146: the sweep goroutine receives a tick and takes the
\* mutex.
SweepLock ==
    /\ swpc = "idle"
    /\ tick
    /\ mu = -1
    /\ mu' = 0
    /\ tick' = FALSE
    /\ swpc' = "scan"
    /\ UNCHANGED <<lifecycle, quit, requests, chain, cfg, now, limiter, hist, clients, nextLid,
                   rlpc, rlip, rlfound, rlhist, movies>>

\* middleware.go:150-157: every entry not seen for more than three minutes is
\* deleted, and the mutex is released.
SweepScan ==
    /\ swpc = "scan"
    /\ clients' = [ip \in IPs |->
                     IF clients[ip].present /\ Stale(clients[ip]) THEN NoClient
                     ELSE clients[ip]]
    /\ mu' = -1
    /\ swpc' = "idle"
    /\ UNCHANGED <<lifecycle, quit, requests, chain, cfg, now, limiter, hist, nextLid, tick,
                   rlpc, rlip, rlfound, rlhist, movies>>

\* With at most MaxRL requests a bucket of more than MaxRL tokens never
\* refuses, so the runs of rateLimit start with the smaller capacities.
InitRegistry ==
    /\ ServeInit
    /\ MoviesInit
    /\ ChainInit
    /\ \E c \in Configs : c.burst <= MaxRL /\ LimitInit(c)

NextRegistry ==
    \/ Advance
    \/ SweepLock
    \/ SweepScan
    \/ \E r \in RLReqs :
         \/ \E ip \in IPs : RLStart(r, ip)
         \/ RLLock(r)
         \/ RLLookup(r)
         \/ RLInsert(r)
         \/ RLSeen(r)
         \/ RLAllow(r)
         \/ RLRejectUnlock(r)
         \/ RLReject(r)
         \/ RLAdmitUnlock(r)

SpecRegistry == InitRegistry /\ [][NextRegistry]_vars

\* ------------------------------------------------------------------ C12

\* The decisions made for address ip by the limiter numbered id.
DecidedBy(ip, id) == {k \in 1..Len(rlhist) : rlhist[k].ip = ip /\ rlhist[k].lid = id}

\* The decisions made for address ip with no time elapsed.
DecidedAtOnce(ip) == {k \in 1..Len(rlhist) : rlhist[k].ip = ip /\ rlhist[k].t = 0}

\* C12: the admissions for one address are linearized. Of N requests of one
\* address decided with no time elapsing exactly min(N, capacity) are
\* admitted, and over any stretch of time the decisions of one address admit
\* no more than its bucket held and received.
C12_AdmissionsLinearized ==
    \A ip \in IPs :
        /\ Cardinality({k \in DecidedAtOnce(ip) : rlhist[k].ok})
              = Min(Cardinality(DecidedAtOnce(ip)), cfg.burst)
        /\ \A id \in 1..nextLid : \A i \in DecidedBy(ip, id) : \A j \in DecidedBy(ip, id) :
              i <= j =>
                 Cardinality({k \in DecidedBy(ip, id) : i <= k /\ k <= j /\ rlhist[k].ok})
                    * TokenUnit
                    <= cfg.burst * TokenUnit + cfg.rate * (rlhist[j].t - rlhist[i].t)

\* More requests of one address than its bucket holds were decided at once.
C12_Witness ==
    \E ip \in IPs :
        /\ Cardinality(DecidedAtOnce(ip)) > cfg.burst
        /\ \E k \in DecidedAtOnce(ip) : ~rlhist[k].ok

\* ------------------------------------------------------------------ C13

\* The decisions of rateLimit for address ip, in order.
DecisionsOf(ip) == SelectSeq(rlhist, LAMBDA e : e.ip = ip)

\* The decisions h[k..] are those of limiter l, numbered id, called at the
\* times of h, a decision under a new number being the first of a new limiter.
RECURSIVE Replays(_, _, _, _)
Replays(h, k, l, id) ==
    IF k > Len(h) THEN TRUE
    ELSE LET l0 == IF h[k].lid = id THEN l ELSE NewLimiter(cfg.rate, cfg.burst)
         IN  /\ h[k].ok = AllowOk(l0, h[k].t)
             /\ Replays(h, k + 1, AllowNext(l0, h[k].t), h[k].lid)

\* C13: two addresses never share token state. The decisions for an address
\* are those of limiters called at the times of that address's own requests
\* alone, whatever the requests of other addresses did in between, and no
\* limiter decides for two addresses.
C13_IdentitiesIsolated ==
    /\ \A ip \in IPs : Replays(DecisionsOf(ip), 1, NewLimiter(cfg.rate, cfg.burst), 0)
    /\ \A i \in 1..Len(rlhist) : \A j \in 1..Len(rlhist) :
          rlhist[i].lid = rlhist[j].lid => rlhist[i].ip = rlhist[j].ip
    /\ \A ip \in IPs : \A jp \in IPs :
          (clients[ip].present /\ clients[jp].present /\ ip # jp)
             => clients[ip].lid # clients[jp].lid

\* One address has taken the last token of its bucket, and a request of the
\* other address is admitted afterwards with no time elapsed.
C13_Witness ==
    \E i \in 1..Len(rlhist) : \E j \in 1..Len(rlhist) :
        /\ i < j
        /\ rlhist[i].ip # rlhist[j].ip
        /\ rlhist[i].t = rlhist[j].t
        /\ now = rlhist[j].t
        /\ clients[rlhist[i].ip].present
        /\ ~AllowOk(clients[rlhist[i].ip].lim, now)
        /\ rlhist[j].ok

\* ------------------------------------------------------------------ C14

\* C14: the registry holds at most one entry, with one limiter, per address.
\* A limiter is made for an address only when the address has no entry, and
\* as long as no entry can have gone stale every decision for an address is
\* made by one and the same limiter, also with sweeps in between.
C14_OneLimiterPerIdentity ==
    /\ [](now <= StaleAfter =>
            /\ nextLid = Cardinality({ip \in IPs : clients[ip].present})
            /\ \A i \in 1..Len(rlhist) : \A j \in 1..Len(rlhist) :
                  rlhist[i].ip = rlhist[j].ip => rlhist[i].lid = rlhist[j].lid)
    /\ [][\A ip \in IPs :
            (clients'[ip].present /\ clients'[ip].lid # clients[ip].lid)
               => ~clients[ip].present]_vars

\* Two requests of one address have been decided by its one limiter, with a
\* sweep between the two decisions, while both were in the handler together.
C14_Witness ==
    /\ Len(rlhist) = 2
    /\ rlhist[1].ip = rlhist[2].ip
    /\ rlhist[1].lid = rlhist[2].lid
    /\ rlhist[1].t < rlhist[2].t
    /\ nextLid = 1
    /\ now <= StaleAfter

\* ------------------------------------------------------------------ C15

Critical == {"lookup", "insert", "seen", "allow", "admitted", "refused"}

\* C16: no request holds the mutex while the next handler runs or while the
\* 429 response is written: the mutex is held by a request only between its
\* Lock and the Unlock of its path, admitted or refused.
C16_LockNotHeldDownstream ==
    \A r \in RLReqs :
        /\ rlpc[r] \in {"next", "rejecting", "rejected"} => mu # r
        /\ mu = r => rlpc[r] \in Critical
        /\ rlpc[r] \in Critical => mu = r

\* One request is in the next handler, another is writing its refusal, and
\* the sweep holds the mutex.
C16_Witness ==
    /\ mu = 0
    /\ \E r \in RLReqs : rlpc[r] = "next"
    /\ \E r \in RLReqs : rlpc[r] = "rejecting"

\* ------------------------------------------------------------------ C17

\* C17: with the limiter switched off every request goes to the next handler,
\* no entry is made, no limiter is consulted and no request takes the mutex.
C17_DisabledAdmitsAll ==
    ~cfg.enabled =>
        /\ \A r \in RLReqs : rlpc[r] \in {"idle", "next"}
        /\ \A ip \in IPs : ~clients[ip].present
        /\ nextLid = 0
        /\ rlhist = <<>>
        /\ mu \notin RLReqs

\* Every request of a run with the limiter switched off is in the next
\* handler, two of them from one address.
C17_Witness ==
    /\ ~cfg.enabled
    /\ \A r \in RLReqs : rlpc[r] = "next"
    /\ \E r \in RLReqs : \E q \in RLReqs : r # q /\ rlip[r] = rlip[q]

\* ------------------------------------------- the requests of the chain

\* Longest Authorization header of a run, in atoms.
MaxHeaderLen == 3

\* app.config.cors.trustedOrigins of the run.
TrustedOrigins == {"https://app.example"}

\* The Origin headers of the requests: absent, trusted, not trusted.
Origins == {"", "https://app.example", "https://other.example"}

Methods == {"GET", "OPTIONS"}

\* The routes of routes(): one without guard and one behind
\* requirePermissions("movies:read", ...).
Paths == {"/v1/healthcheck", "/v1/movies"}

\* The permission code a route is registered with.
RequiredCode(p) == "movies:read"

\* An Authorization header is a string; the model writes it as a sequence of
\* atoms, each a piece of text: the space, two scheme names and some tokens.
TokenAtoms == {"tokA", "tokB", "tokC", "tokAct", "tokMiss", "tokShort"}
Atoms == {" ", "Bearer", "Basic"} \cup TokenAtoms

\* The number of bytes of an atom: tokens have 26 of them, but for one that
\* is too short.
AtomLen(a) ==
    CASE a = " " -> 1
      [] a = "Bearer" -> 6
      [] a = "Basic" -> 5
      [] a = "tokShort" -> 10
      [] OTHER -> 26

RECURSIVE StrLen(_)
StrLen(str) == IF str = <<>> THEN 0 ELSE AtomLen(Head(str)) + StrLen(Tail(str))

Headers == UNION {[1..n -> Atoms] : n \in 0..MaxHeaderLen}

\* The headers of the requests that go through the whole chain: one of each
\* kind.
ChainHeaders ==
    {<<>>, <<"Basic", " ", "tokA">>, <<"Bearer", " ", "tokA">>, <<"Bearer", " ", "tokB">>,
     <<"Bearer", " ", "tokC">>, <<"Bearer", " ", "tokMiss">>}

\* strings.Split(str, " "): the pieces of str between its spaces.
RECURSIVE Split(_)
Split(str) ==
    IF \A i \in 1..Len(str) : str[i] # " " THEN <<str>>
    ELSE LET i == CHOOSE k \in 1..Len(str) :
                     str[k] = " " /\ \A j \in 1..(k - 1) : str[j] # " "
         IN  <<SubSeq(str, 1, i - 1)>> \o Split(SubSeq(str, i + 1, Len(str)))

\* A plausible slip: the header is never taken to be absent.
NoCredentialNever(h) == FALSE

\* middleware.go:226: authorizationHeader == ""
NoCredential(h) == h = <<>>

\* A plausible slip: the scheme is not compared.
WellFormedAnyScheme(h) == Len(Split(h)) = 2

\* middleware.go:240-241: the header has exactly two parts and the first is
\* "Bearer".
WellFormed(h) == Len(Split(h)) = 2 /\ Split(h)[1] = <<"Bearer">>

\* middleware.go:247: token := headerParts[1]
TokenOf(h) == Split(h)[2]

\* data.ValidateTokenPlaintext: the token is given and is 26 bytes long.
ValidateTokenPlaintext(token) == token # <<>> /\ StrLen(token) = 26

ScopeActivation == "activation"
ScopeAuthentication == "authentication"

\* The users table and the tokens table of the run. alice is activated and
\* may read movies, bob is not activated, carol is activated and has no
\* permission; alice also holds an activation token.
Users == {"alice", "bob", "carol"}
AnonymousUser == "anonymous"
IsAnonymous(u) == u = AnonymousUser
Activated(u) == u \in {"alice", "carol"}
PermissionsOf(u) == IF u = "alice" THEN {"movies:read"} ELSE {}

TokenTable ==
    {[scope |-> ScopeAuthentication, plaintext |-> <<"tokA">>, user |-> "alice"],
     [scope |-> ScopeAuthentication, plaintext |-> <<"tokB">>, user |-> "bob"],
     [scope |-> ScopeAuthentication, plaintext |-> <<"tokC">>, user |-> "carol"],
     [scope |-> ScopeActivation, plaintext |-> <<"tokAct">>, user |-> "alice"]}

\* A plausible slip: the token is looked up whatever its scope.
GetForTokenAnyScope(scope, token) ==
    IF \E rec \in TokenTable : rec.plaintext = token
       THEN (CHOOSE rec \in TokenTable : rec.plaintext = token).user
       ELSE "ErrRecordNotFound"

\* Users.GetForToken(scope, token) on a database that answers: the user of
\* the token of that scope, or ErrRecordNotFound.
GetForToken(scope, token) ==
    IF \E rec \in TokenTable : rec.scope = scope /\ rec.plaintext = token
       THEN (CHOOSE rec \in TokenTable : rec.scope = scope /\ rec.plaintext = token).user
       ELSE "ErrRecordNotFound"

\* The status code of each response of the chain; a request for which
\* nothing was written is answered with 200.
StatusOf(w) ==
    CASE w = "rateLimitExceeded" -> 429
      [] w = "invalidAuthenticationToken" -> 401
      [] w = "authenticationRequired" -> 401
      [] w = "inactiveAccount" -> 403
      [] w = "notPermitted" -> 403
      [] w = "methodNotAllowed" -> 405
      [] w = "serverError" -> 500
      [] OTHER -> 200

\* ------------------------------------------- the middleware chain
\* routes.go:85: metrics(recoverPanic(enableCORS(rateLimit(authenticate(router))))).
\* One request at a time is inside recoverPanic; the trailing accounting of
\* metrics for a request runs concurrently with the requests after it.

\* The address the requests of the chain come from.
ChainIP == "a"

\* A handler writes a response: the first WriteHeader sets the status of the
\* request, a later one is superfluous and changes nothing but the body.
Respond(w) ==
    /\ written' = IF written = "" THEN w ELSE written
    /\ nWrites' = nWrites + 1
    /\ sentHeader' = IF written = "" THEN Wire(header') ELSE sentHeader

\* A stage is entered.
Enter(stage) == trace' = Append(trace, stage)

\* A plausible slip: the received counter is not touched.
CountReceivedNever == UNCHANGED totalRequestsReceived

\* middleware.go:472: totalRequestsReceived.Add(1)
CountReceived == totalRequestsReceived' = totalRequestsReceived + 1

\* middleware.go:470-490: a request enters metrics, which counts it and calls
\* the rest of the chain through httpsnoop.CaptureMetrics.
ChainMetrics(m, o, a) ==
    /\ cpc = "idle"
    /\ started < MaxRL
    /\ started' = started + 1
    /\ CountReceived
    /\ method' = m
    /\ origin' = o
    /\ acrm' = a
    /\ Enter("metrics")
    /\ cpc' = "recoverPanic"
    /\ UNCHANGED <<lifecycle, quit, requests, limiting, path, authorizationHeader, user,
                   nAttach, observed, written, nWrites, lookups, nPermLookups, panics, ran,
                   totalResponsesSent, totalResponsesSentbyStatus, tail,
                   header, sentHeader, movies>>

\* A plausible slip: the chain is built with rateLimit in front of
\* enableCORS, and recoverPanic calls rateLimit.
ChainRecoverPanicThenRateLimit ==
    /\ cpc = "recoverPanic"
    /\ Enter("recoverPanic")
    /\ cpc' = "rateLimit"
    /\ UNCHANGED <<lifecycle, quit, requests, limiting, method, origin, acrm, path,
                   authorizationHeader, user, nAttach, observed, written, nWrites, lookups,
                   nPermLookups, panics, ran, counters, started, tail,
                   header, sentHeader, movies>>

\* middleware.go:38-56: recoverPanic registers its deferred function and
\* calls the next stage.
ChainRecoverPanic ==
    /\ cpc = "recoverPanic"
    /\ Enter("recoverPanic")
    /\ cpc' = "enableCORS"
    /\ UNCHANGED <<lifecycle, quit, requests, limiting, method, origin, acrm, path,
                   authorizationHeader, user, nAttach, observed, written, nWrites, lookups,
                   nPermLookups, panics, ran, counters, started, tail,
                   header, sentHeader, movies>>

\* A plausible slip: the origin of the request is echoed whatever it is.
OriginTrustedAny(o) == TRUE

\* middleware.go:398-399: origin equals one of the trusted origins.
OriginTrusted(o) == \E t \in TrustedOrigins : o = t

\* A plausible slip: a preflight is not told apart from other requests.
TrustedPreflightNever == FALSE

\* middleware.go:394-411: the request is a preflight from a trusted origin.
TrustedPreflight ==
    origin # "" /\ origin \in TrustedOrigins /\ method = "OPTIONS" /\ acrm

\* middleware.go:379-382: w.Header().Set("Vary", "Origin"), then
\* w.Header().Set("Vary", "Access-Control-Request-Method").
VaryHeader ==
    HeaderSet(HeaderSet(header, "Vary", "Origin"), "Vary", "Access-Control-Request-Method")

\* middleware.go:413-417: the fields of the answer to a preflight.
PreflightHeader(h) ==
    HeaderSet(HeaderSet(HeaderSet(h,
        "Access-Control-Allow-Methods", "OPTIONS, PUT, PATCH, DELETE"),
        "Access-Control-Allow-Headers", "Authorization, Content-Type"),
        "Access-Control-Max-Age", "60")

\* middleware.go:379-417: the header of the response when enableCORS has
\* set its fields.
CORSHeader ==
    IF origin # "" /\ OriginTrusted(origin)
       THEN LET h == HeaderSet(VaryHeader, "Access-Control-Allow-Origin", origin)
            IN  IF TrustedPreflight THEN PreflightHeader(h) ELSE h
       ELSE VaryHeader

\* middleware.go:379-430: enableCORS answers the preflight of a trusted
\* origin with 200 and returns; every other request goes to the next stage.
ChainEnableCORS ==
    /\ cpc = "enableCORS"
    /\ header' = CORSHeader
    /\ Enter("enableCORS")
    /\ IF TrustedPreflight
          THEN /\ Respond("preflight")
               /\ cpc' = "deferred"
          ELSE /\ UNCHANGED <<written, nWrites, sentHeader>>
               /\ cpc' = "rateLimit"
    /\ UNCHANGED <<lifecycle, quit, requests, limiting, method, origin, acrm, path,
                   authorizationHeader, user, nAttach, observed, lookups, nPermLookups,
                   panics, ran, counters, started, tail, movies>>

\* The entry of the address of the request, made if it is not there, with
\* its lastSeen set (middleware.go:179-186).
SeenClient ==
    [(IF clients[ChainIP].present THEN clients[ChainIP] ELSE NewClient(nextLid + 1))
        EXCEPT !.lastSeen = now]

\* A plausible slip: the return after the 429 is missing, and the refused
\* request goes on to the next stage.
ChainRateLimitNoReturn ==
    /\ cpc = "rateLimit"
    /\ header' = header
    /\ Enter("rateLimit")
    /\ cpc' = "authenticate"
    /\ IF ~cfg.enabled
          THEN UNCHANGED <<clients, nextLid, rlhist, written, nWrites, sentHeader>>
          ELSE /\ clients' = [clients EXCEPT ![ChainIP] =
                                [SeenClient EXCEPT !.lim = AllowNext(SeenClient.lim, now)]]
               /\ nextLid' = IF clients[ChainIP].present THEN nextLid ELSE nextLid + 1
               /\ rlhist' = Append(rlhist, [ip |-> ChainIP, t |-> now,
                                            ok |-> AllowOk(SeenClient.lim, now),
                                            lid |-> SeenClient.lid])
               /\ IF AllowOk(SeenClient.lim, now)
                     THEN UNCHANGED <<written, nWrites, sentHeader>>
                     ELSE Respond("rateLimitExceeded")
    /\ UNCHANGED <<lifecycle, quit, requests, cfg, now, limiter, hist, mu, tick, swpc,
                   rlpc, rlip, rlfound, method, origin, acrm, path, authorizationHeader,
                   user, nAttach, observed, lookups, nPermLookups, panics, ran, counters,
                   started, tail, movies>>

\* middleware.go:163-202: rateLimit. The steps between mu.Lock() and
\* mu.Unlock() are taken at once here; a refused request is answered with
\* 429 and the next stage is not called.
ChainRateLimit ==
    /\ cpc = "rateLimit"
    /\ header' = header
    /\ Enter("rateLimit")
    /\ IF ~cfg.enabled
          THEN /\ cpc' = "authenticate"
               /\ UNCHANGED <<clients, nextLid, rlhist, written, nWrites, sentHeader>>
          ELSE /\ clients' = [clients EXCEPT ![ChainIP] =
                                [SeenClient EXCEPT !.lim = AllowNext(SeenClient.lim, now)]]
               /\ nextLid' = IF clients[ChainIP].present THEN nextLid ELSE nextLid + 1
               /\ rlhist' = Append(rlhist, [ip |-> ChainIP, t |-> now,
                                            ok |-> AllowOk(SeenClient.lim, now),
                                            lid |-> SeenClient.lid])
               /\ IF AllowOk(SeenClient.lim, now)
                     THEN /\ cpc' = "authenticate"
                          /\ UNCHANGED <<written, nWrites, sentHeader>>
                     ELSE /\ Respond("rateLimitExceeded")
                          /\ cpc' = "deferred"
    /\ UNCHANGED <<lifecycle, quit, requests, cfg, now, limiter, hist, mu, tick, swpc,
                   rlpc, rlip, rlfound, method, origin, acrm, path, authorizationHeader,
                   user, nAttach, observed, lookups, nPermLookups, panics, ran, counters,
                   started, tail, movies>>

\* A plausible slip: the request returned by contextSetUser is dropped.
AttachDropped(u) == UNCHANGED <<user, nAttach>>

\* contextSetUser: the user is put in the context of the request.
Attach(u) ==
    /\ user' = u
    /\ nAttach' = nAttach + 1

\* middleware.go:213-279: authenticate, for a request whose Authorization
\* header is h; dbError says that the database fails when it is asked.
ChainAuthenticate(h, dbError) ==
    /\ cpc = "authenticate"
    /\ header' = HeaderSet(header, "Vary", "Authorization")
    /\ Enter("authenticate")
    /\ authorizationHeader' = h
    /\ IF NoCredential(h)
          THEN /\ Attach(AnonymousUser)
               /\ cpc' = "router"
               /\ UNCHANGED <<lookups, written, nWrites, sentHeader>>
          ELSE IF ~WellFormed(h) \/ ~ValidateTokenPlaintext(TokenOf(h))
          THEN /\ Respond("invalidAuthenticationToken")
               /\ cpc' = "deferred"
               /\ UNCHANGED <<lookups, user, nAttach>>
          ELSE /\ lookups' = Append(lookups, ScopeAuthentication)
               /\ IF dbError
                     THEN /\ Respond("serverError")
                          /\ cpc' = "deferred"
                          /\ UNCHANGED <<user, nAttach>>
                     ELSE IF GetForToken(ScopeAuthentication, TokenOf(h)) = "ErrRecordNotFound"
                     THEN /\ Respond("invalidAuthenticationToken")
                          /\ cpc' = "deferred"
                          /\ UNCHANGED <<user, nAttach>>
                     ELSE /\ Attach(GetForToken(ScopeAuthentication, TokenOf(h)))
                          /\ cpc' = "router"
                          /\ UNCHANGED <<written, nWrites, sentHeader>>
    /\ UNCHANGED <<lifecycle, quit, requests, limiting, method, origin, acrm, path,
                   observed, nPermLookups, panics, ran, counters, started, tail, movies>>

\* routes.go:20-42: the router dispatches the request: a method the route
\* does not have is answered with 405, the healthcheck route goes to its
\* handler, the movies route to the guards in front of its handler.
ChainRouter(p) ==
    /\ cpc = "router"
    /\ header' = header
    /\ Enter("router")
    /\ IF method # "GET"
          THEN /\ Respond("methodNotAllowed")
               /\ cpc' = "deferred"
               /\ path' = path
          ELSE /\ path' = p
               /\ cpc' = IF p = "/v1/movies" THEN "requireAuthenticatedUser" ELSE "handler"
               /\ UNCHANGED <<written, nWrites, sentHeader>>
    /\ UNCHANGED <<lifecycle, quit, requests, limiting, method, origin, acrm,
                   authorizationHeader, user, nAttach, observed, lookups, nPermLookups,
                   panics, ran, counters, started, tail, movies>>

\* contextGetUser: a guard or a handler reads the user of the request.
Observe == observed' = observed \cup {user}

\* middleware.go:292-307: requireAuthenticatedUser
ChainRequireAuthenticatedUser ==
    /\ cpc = "requireAuthenticatedUser"
    /\ header' = header
    /\ Enter("requireAuthenticatedUser")
    /\ Observe
    /\ IF IsAnonymous(user)
          THEN /\ Respond("authenticationRequired")
               /\ cpc' = "deferred"
          ELSE /\ cpc' = "requireActivatedUser"
               /\ UNCHANGED <<written, nWrites, sentHeader>>
    /\ UNCHANGED <<lifecycle, quit, requests, limiting, method, origin, acrm, path,
                   authorizationHeader, user, nAttach, lookups, nPermLookups, panics, ran,
                   counters, started, tail, movies>>

\* middleware.go:312-324: requireActivatedUser
ChainRequireActivatedUser ==
    /\ cpc = "requireActivatedUser"
    /\ header' = header
    /\ Enter("requireActivatedUser")
    /\ Observe
    /\ IF ~Activated(user)
          THEN /\ Respond("inactiveAccount")
               /\ cpc' = "deferred"
          ELSE /\ cpc' = "requirePermissions"
               /\ UNCHANGED <<written, nWrites, sentHeader>>
    /\ UNCHANGED <<lifecycle, quit, requests, limiting, method, origin, acrm, path,
                   authorizationHeader, user, nAttach, lookups, nPermLookups, panics, ran,
                   counters, started, tail, movies>>

\* A plausible slip: the wrapped handler runs whatever the permissions are.
IncludeAlways(permissions, code) == TRUE

\* permissions.Include(code)
Include(permissions, code) == code \in permissions

\* middleware.go:334-353: requirePermissions; dbError says that
\* Permissions.GetAllForUser fails.
ChainRequirePermissions(dbError) ==
    /\ cpc = "requirePermissions"
    /\ header' = header
    /\ Enter("requirePermissions")
    /\ Observe
    /\ nPermLookups' = nPermLookups + 1
    /\ IF dbError
          THEN /\ Respond("serverError")
               /\ cpc' = "deferred"
          ELSE IF ~Include(PermissionsOf(user), RequiredCode(path))
          THEN /\ Respond("notPermitted")
               /\ cpc' = "deferred"
          ELSE /\ cpc' = "handler"
               /\ UNCHANGED <<written, nWrites, sentHeader>>
    /\ UNCHANGED <<lifecycle, quit, requests, limiting, method, origin, acrm, path,
                   authorizationHeader, user, nAttach, lookups, panics, ran, counters,
                   started, tail, movies>>

\* The handler of the route runs and writes its response.
ChainHandler ==
    /\ cpc = "handler"
    /\ header' = header
    /\ Enter("handler")
    /\ Observe
    /\ ran' = TRUE
    /\ Respond("ok")
    /\ cpc' = "handlerWritten"
    /\ UNCHANGED <<lifecycle, quit, requests, limiting, method, origin, acrm, path,
                   authorizationHeader, user, nAttach, lookups, nPermLookups, panics,
                   counters, started, tail, movies>>

\* The handler returns.
ChainHandlerReturns ==
    /\ cpc = "handlerWritten"
    /\ cpc' = "deferred"
    /\ UNCHANGED <<lifecycle, quit, requests, limiting, trace, method, origin, acrm, path,
                   authorizationHeader, user, nAttach, observed, written, nWrites, lookups,
                   nPermLookups, panics, ran, counters, started, tail,
                   header, sentHeader, movies>>

\* The positions inside recoverPanic at which the goroutine of the request
\* can panic: at the start of a stage, and in a handler that has written its
\* response.
PanicPoints ==
    {"enableCORS", "rateLimit", "authenticate", "router", "requireAuthenticatedUser",
     "requireActivatedUser", "requirePermissions", "handler", "handlerWritten"}

\* A stage inside recoverPanic panics.
ChainPanic ==
    /\ cpc \in PanicPoints
    /\ panics = 0
    /\ panics' = panics + 1
    /\ trace' = IF cpc = "handlerWritten" THEN trace ELSE Append(trace, cpc)
    /\ cpc' = "recover"
    /\ UNCHANGED <<lifecycle, quit, requests, limiting, method, origin, acrm, path,
                   authorizationHeader, user, nAttach, observed, written, nWrites, lookups,
                   nPermLookups, ran, counters, started, tail,
                   header, sentHeader, movies>>

\* middleware.go:41-55: the deferred function of recoverPanic finds a panic:
\* it calls serverErrorResponse, and the handler of recoverPanic returns.
ChainRecovered ==
    /\ cpc = "recover"
    /\ header' = HeaderSet(header, "Connection:", "close")
    /\ Enter("deferred")
    /\ Respond("serverError")
    /\ cpc' = "returned"
    /\ UNCHANGED <<lifecycle, quit, requests, limiting, method, origin, acrm, path,
                   authorizationHeader, user, nAttach, observed, lookups, nPermLookups,
                   panics, ran, counters, started, tail, movies>>

\* middleware.go:41-43: the deferred function of recoverPanic finds no panic.
ChainDeferred ==
    /\ cpc = "deferred"
    /\ Enter("deferred")
    /\ cpc' = "returned"
    /\ UNCHANGED <<lifecycle, quit, requests, limiting, method, origin, acrm, path,
                   authorizationHeader, user, nAttach, observed, written, nWrites, lookups,
                   nPermLookups, panics, ran, counters, started, tail,
                   header, sentHeader, movies>>

\* middleware.go:490: httpsnoop.CaptureMetrics returns with the status code
\* of the request; its goroutine goes on to the trailing accounting, and the
\* next request can enter.
ChainReturn ==
    /\ cpc = "returned"
    /\ tail' = [tail EXCEPT ![started] = [pc |-> "sent", code |-> StatusOf(written)]]
    /\ cpc' = "idle"
    /\ trace' = <<>>
    /\ method' = ""
    /\ origin' = ""
    /\ acrm' = FALSE
    /\ path' = ""
    /\ authorizationHeader' = <<>>
    /\ user' = "none"
    /\ nAttach' = 0
    /\ observed' = {}
    /\ written' = ""
    /\ nWrites' = 0
    /\ lookups' = <<>>
    /\ nPermLookups' = 0
    /\ panics' = 0
    /\ ran' = FALSE
    /\ header' = NoHeader
    /\ sentHeader' = NoHeader
    /\ UNCHANGED <<lifecycle, quit, requests, limiting, counters, started, movies>>

\* middleware.go:495: totalResponsesSent.Add(1)
MetricsSent(r) ==
    /\ tail[r].pc = "sent"
    /\ totalResponsesSent' = totalResponsesSent + 1
    /\ tail' = [tail EXCEPT ![r].pc = "status"]
    /\ UNCHANGED <<lifecycle, quit, requests, limiting, inside, totalRequestsReceived,
                   totalResponsesSentbyStatus, started, movies>>

\* middleware.go:499-504: the processing time is added, and the count of the
\* status code is incremented.
MetricsByStatus(r) ==
    /\ tail[r].pc = "status"
    /\ totalResponsesSentbyStatus' =
          [totalResponsesSentbyStatus EXCEPT ![tail[r].code] = @ + 1]
    /\ tail' = [tail EXCEPT ![r].pc = "done"]
    /\ UNCHANGED <<lifecycle, quit, requests, limiting, inside, totalRequestsReceived,
                   totalResponsesSent, started, movies>>

\* The configurations of the runs of the chain: the bucket is smaller than
\* the number of requests, so that the last of them can be refused.
InitChain ==
    /\ ServeInit
    /\ MoviesInit
    /\ \E c \in Configs : c.burst < MaxRL /\ c.rate = TokenUnit /\ LimitInit(c)
    /\ ChainInit

NextChain ==
    \/ \E m \in Methods : \E o \in Origins : \E a \in BOOLEAN :
          (a => m = "OPTIONS") /\ ChainMetrics(m, o, a)
    \/ ChainRecoverPanic
    \/ ChainEnableCORS
    \/ ChainRateLimit
    \/ \E h \in ChainHeaders : \E dbError \in BOOLEAN : ChainAuthenticate(h, dbError)
    \/ \E p \in Paths : ChainRouter(p)
    \/ ChainRequireAuthenticatedUser
    \/ ChainRequireActivatedUser
    \/ \E dbError \in BOOLEAN : ChainRequirePermissions(dbError)
    \/ ChainHandler
    \/ ChainHandlerReturns
    \/ ChainPanic
    \/ ChainRecovered
    \/ ChainDeferred
    \/ ChainReturn
    \/ \E r \in ChainReqs : MetricsSent(r)
    \/ \E r \in ChainReqs : MetricsByStatus(r)

SpecChain == InitChain /\ [][NextChain]_vars

\* One request at the authenticate stage: a GET without Origin header that
\* has passed metrics, recoverPanic, enableCORS and a rateLimit that is
\* switched off. authenticate is applied to every header of Headers.
InitAuth ==
    /\ ServeInit
    /\ MoviesInit
    /\ LimitInit([enabled |-> FALSE, rate |-> TokenUnit, burst |-> MaxBurst])
    /\ cpc = "authenticate"
    /\ trace = <<"metrics", "recoverPanic", "enableCORS", "rateLimit">>
    /\ method = "GET"
    /\ origin = ""
    /\ acrm = FALSE
    /\ path = ""
    /\ authorizationHeader = <<>>
    /\ user = "none"
    /\ nAttach = 0
    /\ observed = {}
    /\ written = ""
    /\ nWrites = 0
    /\ lookups = <<>>
    /\ nPermLookups = 0
    /\ panics = 0
    /\ ran = FALSE
    /\ header = HeaderSet(HeaderSet(NoHeader, "Vary", "Origin"),
                          "Vary", "Access-Control-Request-Method")
    /\ sentHeader = NoHeader
    /\ started = 1
    /\ tail = [r \in ChainReqs |-> [pc |-> "none", code |-> 0]]
    /\ totalRequestsReceived = 1
    /\ totalResponsesSent = 0
    /\ totalResponsesSentbyStatus = [c \in Statuses |-> 0]

NextAuth == \E h \in Headers : \E dbError \in BOOLEAN : ChainAuthenticate(h, dbError)

SpecAuth == InitAuth /\ [][NextAuth]_vars

\* The request inside the chain has entered the stage.
InTrace(stage) == \E i \in 1..Len(trace) : trace[i] = stage

\* ------------------------------------------------------------------ C21

\* routes.go:85, outermost first.
ChainOrder ==
    <<"metrics", "recoverPanic", "enableCORS", "rateLimit", "authenticate", "router">>

\* The stages behind the router in the order they are composed, for a route.
BehindRouter(p) ==
    IF p = "/v1/movies"
       THEN <<"requireAuthenticatedUser", "requireActivatedUser", "requirePermissions",
              "handler">>
       ELSE <<"handler">>

\* C21: every request enters the stages in the order metrics, recoverPanic,
\* enableCORS, rateLimit, authenticate, router, as far as it gets; a request
\* that no stage short-circuits goes through all of them and the guards to
\* its handler; and the trailing work runs in the reverse order: first the
\* deferred function of recoverPanic, then the accounting of metrics.
C21_StagesInOrder ==
    /\ [](/\ \A i \in 1..Len(trace) :
                (i <= Len(ChainOrder) /\ trace[i] # "deferred") => trace[i] = ChainOrder[i]
          /\ (cpc = "returned" /\ ran /\ panics = 0)
                => trace = ChainOrder \o BehindRouter(path) \o <<"deferred">>)
    /\ [][\A r \in ChainReqs :
            (tail[r].pc = "none" /\ tail'[r].pc # "none")
               => /\ cpc = "returned"
                  /\ trace[Len(trace)] = "deferred"
                  /\ tail'[r].pc = "sent"]_vars

\* A request has gone through the whole chain and the guards to its handler.
C21_Witness ==
    /\ cpc = "returned"
    /\ ran
    /\ panics = 0
    /\ path = "/v1/movies"

\* ------------------------------------------------------------------ C22

\* C22: a request refused by the rate limiter enters neither authenticate nor
\* a guard or handler, no user is looked up or attached for it, and the
\* trailing accounting of metrics counts it under status 429.
C22_RejectedStopsAtLimiter ==
    /\ [](written = "rateLimitExceeded" =>
            /\ ~InTrace("authenticate") /\ ~InTrace("router") /\ ~InTrace("handler")
            /\ ~ran
            /\ lookups = <<>> /\ nPermLookups = 0 /\ nAttach = 0 /\ user = "none"
            /\ cpc \in {"deferred", "returned"})
    /\ [][(cpc = "returned" /\ cpc' = "idle" /\ written = "rateLimitExceeded")
            => tail'[started] = [pc |-> "sent", code |-> 429]]_vars
    /\ [][\A r \in ChainReqs :
            (tail[r].pc = "status" /\ tail'[r].pc = "done")
               => totalResponsesSentbyStatus'[tail[r].code]
                     = totalResponsesSentbyStatus[tail[r].code] + 1]_vars

\* A refused request has been counted under 429.
C22_Witness ==
    /\ totalResponsesSentbyStatus[429] = 1
    /\ \E i \in 1..Len(rlhist) : ~rlhist[i].ok

\* ------------------------------------------------------------------ C23

\* A panic raised before the stage has written anything is answered with
\* exactly one response, the 500 of serverErrorResponse, and the handler of
\* recoverPanic returns normally.
PanicBeforeWriteContained ==
    (cpc = "returned" /\ panics > 0 /\ ~InTrace("handler"))
        => (written = "serverError" /\ nWrites = 1)

\* C23: for every panic raised by a stage inside recoverPanic exactly one
\* response is produced for the request, and it is the 500 fault response.
C23_PanicGivesOneFaultResponse ==
    (cpc = "returned" /\ panics > 0) => (written = "serverError" /\ nWrites = 1)

\* ------------------------------------------------------------------ C24

\* The request is a preflight: OPTIONS with an Origin header and an
\* Access-Control-Request-Method header.
Preflight == method = "OPTIONS" /\ origin # "" /\ acrm

\* C24 as stated: no preflight is answered with a rate-limit rejection,
\* whatever its origin.
C24_PreflightNeverLimited == Preflight => written # "rateLimitExceeded"

\* C24, amended: a preflight whose origin is one of the trusted origins does
\* not reach the rate limiter: it is never answered with 429, it takes no
\* token, and unless enableCORS panics it is answered by enableCORS.
C24_TrustedPreflightNeverLimited ==
    (Preflight /\ origin \in TrustedOrigins) =>
        /\ written # "rateLimitExceeded"
        /\ ~InTrace("rateLimit")
        /\ (cpc = "returned" /\ panics = 0) => written = "preflight"

\* A preflight from a trusted origin has been answered while the bucket of
\* its sender is empty.
C24_Witness ==
    /\ Preflight
    /\ origin \in TrustedOrigins
    /\ cpc = "returned"
    /\ written = "preflight"
    /\ clients[ChainIP].present
    /\ ~AllowOk(clients[ChainIP].lim, now)

\* ------------------------------------------------------------------ C25

\* The requests that have entered metrics and are not yet counted as sent:
\* the one inside the chain, and those whose goroutine is between the return
\* of CaptureMetrics and totalResponsesSent.Add(1).
ChainInFlight ==
    (IF cpc = "idle" THEN 0 ELSE 1) + Cardinality({r \in ChainReqs : tail[r].pc = "sent"})

\* C25: every request that enters the chain is counted once as received;
\* when its processing has ended it is counted once as sent and once under
\* its final status code, wherever the chain was cut short; and received
\* minus sent is the number of requests in flight.
C25_MetricsAccounting ==
    /\ [](/\ totalRequestsReceived = started
          /\ totalRequestsReceived - totalResponsesSent = ChainInFlight
          /\ totalResponsesSent
                = Cardinality({r \in ChainReqs : tail[r].pc \in {"status", "done"}})
          /\ \A c \in Statuses :
                totalResponsesSentbyStatus[c]
                   = Cardinality({r \in ChainReqs : tail[r].pc = "done" /\ tail[r].code = c}))
    /\ [][(cpc = "returned" /\ cpc' = "idle")
            => tail'[started] = [pc |-> "sent", code |-> StatusOf(written)]]_vars

\* Two requests are in flight at once: one refused by the limiter and still
\* inside the chain, one that ended in a contained panic and is before its
\* trailing accounting.
C25_Witness ==
    /\ totalRequestsReceived - totalResponsesSent = 2
    /\ cpc = "returned"
    /\ StatusOf(written) = 429
    /\ \E r \in ChainReqs : tail[r].pc = "sent" /\ tail[r].code = 500

\* ------------------------------------------------------------------ C26

\* authenticate has acted on the request.
Authenticated == cpc # "authenticate" /\ InTrace("authenticate")

\* C26: a request with no Authorization header gets the anonymous user in
\* its context, no response is written by authenticate, no user is looked
\* up, and the request goes to the next stage.
C26_NoHeaderIsAnonymous ==
    (Authenticated /\ authorizationHeader = <<>> /\ cpc \in {"router", "deferred"})
        => /\ user = AnonymousUser
           /\ nAttach = 1
           /\ written = ""
           /\ nWrites = 0
           /\ lookups = <<>>
           /\ cpc = "router"

C26_Witness ==
    /\ Authenticated
    /\ authorizationHeader = <<>>
    /\ cpc = "router"
    /\ user = AnonymousUser

\* ------------------------------------------------------------------ C27

\* The header is not of the shape "Bearer <token>" with a token of 26 bytes.
Malformed(h) ==
    \/ Len(Split(h)) # 2
    \/ Split(h)[1] # <<"Bearer">>
    \/ Split(h)[2] = <<>>
    \/ StrLen(Split(h)[2]) # 26

\* C27: an Authorization header that is present and is not exactly two parts
\* separated by a space, or whose scheme is not Bearer, or whose token fails
\* the validation, is answered with 401 by authenticate; the next stage is
\* not called and no user is looked up.
C27_MalformedHeaderRejected ==
    (Authenticated /\ authorizationHeader # <<>> /\ Malformed(authorizationHeader)
       /\ cpc \in {"router", "deferred"})
        => /\ written = "invalidAuthenticationToken"
           /\ StatusOf(written) = 401
           /\ nWrites = 1
           /\ cpc = "deferred"
           /\ lookups = <<>>
           /\ user = "none"
           /\ nAttach = 0

\* The header "Basic <token>" with the token of a user has been refused.
C27_Witness ==
    /\ Authenticated
    /\ authorizationHeader = <<"Basic", " ", "tokA">>
    /\ written = "invalidAuthenticationToken"
    /\ cpc = "deferred"

\* ------------------------------------------------------------------ C28

\* The token of the header has a record under the authentication scope.
HasRecord(h) ==
    \E rec \in TokenTable : rec.scope = "authentication" /\ rec.plaintext = Split(h)[2]

RecordUser(h) ==
    (CHOOSE rec \in TokenTable :
        rec.scope = "authentication" /\ rec.plaintext = Split(h)[2]).user

\* C28: for a well-formed bearer token authenticate makes one lookup, under
\* the authentication scope. A token with no record there is answered with
\* 401 and a failing lookup with 500, in both cases without calling the next
\* stage and without a user in the context; otherwise the user of the record
\* is put in the context and the next stage is called.
C28_LookupOutcomes ==
    (Authenticated /\ authorizationHeader # <<>> /\ ~Malformed(authorizationHeader)
       /\ cpc \in {"router", "deferred"})
        => /\ lookups = <<"authentication">>
           /\ \/ /\ written = "serverError"
                 /\ StatusOf(written) = 500
                 /\ cpc = "deferred" /\ user = "none" /\ nAttach = 0 /\ nWrites = 1
              \/ /\ ~HasRecord(authorizationHeader)
                 /\ written = "invalidAuthenticationToken"
                 /\ StatusOf(written) = 401
                 /\ cpc = "deferred" /\ user = "none" /\ nAttach = 0 /\ nWrites = 1
              \/ /\ HasRecord(authorizationHeader)
                 /\ user = RecordUser(authorizationHeader)
                 /\ cpc = "router" /\ nAttach = 1 /\ written = "" /\ nWrites = 0

\* A token that has a record under the activation scope only has been
\* refused after one lookup under the authentication scope.
C28_Witness ==
    /\ Authenticated
    /\ authorizationHeader = <<"Bearer", " ", "tokAct">>
    /\ lookups = <<"authentication">>
    /\ written = "invalidAuthenticationToken"
    /\ cpc = "deferred"

\* ------------------------------------------------------------------ C29

\* C29: when a guard or a handler reads the user of the request, authenticate
\* has put it in the context exactly once, every guard and the handler read
\* that same user, and it is not replaced while the request is processed.
C29_IdentityAttachedOnce ==
    /\ []((observed # {} \/ InTrace("requireAuthenticatedUser") \/ InTrace("handler"))
            => /\ nAttach = 1
               /\ user # "none"
               /\ observed \subseteq {user})
    /\ [][(user # "none" /\ cpc' # "idle") => (user' = user /\ nAttach' = nAttach)]_vars

\* The three guards and the handler have read the user alice.
C29_Witness ==
    /\ cpc = "returned"
    /\ ran
    /\ path = "/v1/movies"
    /\ observed = {"alice"}
    /\ nAttach = 1

\* ------------------------------------------------------------------ C30

\* C30: behind requirePermissions(code) the handler runs exactly when the
\* user is not anonymous, is activated, the permission lookup succeeds and
\* the permissions include code. Otherwise one rejection is written, that of
\* the first failing check: anonymous, not activated, lookup fault, missing
\* permission; and no permission lookup is made for an anonymous or
\* inactive user.
C30_GuardDecision ==
    (cpc = "returned" /\ panics = 0 /\ InTrace("requireAuthenticatedUser")) =>
        /\ nWrites = 1
        /\ IF user = AnonymousUser
              THEN written = "authenticationRequired" /\ nPermLookups = 0 /\ ~ran
           ELSE IF ~Activated(user)
              THEN written = "inactiveAccount" /\ nPermLookups = 0 /\ ~ran
           ELSE /\ nPermLookups = 1
                /\ \/ written = "serverError" /\ ~ran
                   \/ /\ RequiredCode(path) \notin PermissionsOf(user)
                      /\ written = "notPermitted" /\ ~ran
                   \/ /\ RequiredCode(path) \in PermissionsOf(user)
                      /\ written = "ok" /\ ran

\* An activated user without the permission has been refused.
C30_Witness ==
    /\ cpc = "returned"
    /\ user = "carol"
    /\ written = "notPermitted"
    /\ nPermLookups = 1
    /\ ~ran

\* ------------------------------------------------------------------ C31

\* The requests of a run in which the progress of the coordinator is
\* followed.
LiveReqs == 1..MaxLiveReq

NextLive ==
    \/ MainListen
    \/ MainServeFails
    \/ MainServeClosed
    \/ MainRecv
    \/ MainExit
    \/ SigNotify
    \/ Signal
    \/ SigRecv
    \/ SigShutdownCall
    \/ GraceExpires
    \/ SigShutdownReturn
    \/ SigWait
    \/ \E r \in LiveReqs : Accept(r)
    \/ \E r \in LiveReqs : HandlerReject(r)
    \/ \E r \in LiveReqs : HandlerSpawn(r)
    \/ \E r \in LiveReqs : HandlerWriteJSON(r)
    \/ \E r \in LiveReqs : HandlerCheck(r)
    \/ \E r \in LiveReqs : TaskRun(r)

\* The scheduling of the goroutines: a goroutine that can take its next
\* step takes it. The steps of the environment (signals, connections, the
\* passing of the grace period, a failure of the accept loop) and the end of
\* the process are under no such condition.
Fairness ==
    /\ WF_vars(MainListen)
    /\ WF_vars(MainServeClosed)
    /\ WF_vars(MainRecv)
    /\ WF_vars(SigNotify)
    /\ WF_vars(SigRecv)
    /\ WF_vars(SigShutdownCall)
    /\ WF_vars(SigShutdownReturn)
    /\ WF_vars(SigWait)
    /\ \A r \in LiveReqs :
          /\ WF_vars(HandlerReject(r) \/ HandlerSpawn(r))
          /\ WF_vars(HandlerWriteJSON(r))
          /\ WF_vars(HandlerCheck(r))
          /\ WF_vars(TaskRun(r))

SpecLive == Init /\ [][NextLive]_vars /\ Fairness

\* A signal that signal.Notify has relayed to quit is received by the task,
\* which then calls srv.Shutdown, unless the process ends before.
SignalAfterNotifyStartsDrain ==
    (quit > 0 /\ shutdownCalls = 0) ~> (shutdownCalls > 0 \/ ~Running)

\* C31 (the claim as stated): a signal delivered at any moment after the
\* signal task was started and before the drain is not lost: it leaves the
\* process running and is held in quit or by the task, and it is followed by
\* the start of the drain.
C31_NoSignalMissed ==
    /\ [][(Signal /\ shutdownCalls = 0)
            => (proc' = "running" /\ (quit' > 0 \/ sigpc = "caught"))]_vars
    /\ SignalAfterNotifyStartsDrain

\* ------------------------------------------------------------------ C32

\* A signal has been received while the server is serving.
SignalWhileServing == sigpc = "caught" /\ mainpc = "serving" /\ listener = "open"

\* serve() has returned nil and the signal task has ended.
CompletedNoTaskBlocked == serveRet = "nil" /\ sigpc = "done" /\ mainpc = "returned"

\* C32 (the claim as stated): when a signal is received while serving and
\* the grace period does not expire during the drain, serve() returns nil and
\* the signal task ends.
C32_SignalWhileServingCompletes ==
    [](elapsed < GracePeriod) => (SignalWhileServing ~> CompletedNoTaskBlocked)

\* C32 (amended): when a signal is received while serving, the grace period
\* does not expire during the drain, the accept loop does not fail before
\* Shutdown is called and Shutdown closes the listener without error, then
\* serve() returns nil and the signal task ends.
C32_CleanDrainCompletes ==
    ([](elapsed < GracePeriod) /\ [](lnerr = "nil") /\ [](lsErr # "other"))
        => (SignalWhileServing ~> CompletedNoTaskBlocked)

\* serve() returned nil after a drain during which a request that had
\* spawned a task was in flight.
C32_Witness ==
    /\ CompletedNoTaskBlocked
    /\ shutdownErr = "nil"
    /\ elapsed < GracePeriod
    /\ \E r \in LiveReqs : tpc[r] = "done" /\ resp[r] = "accepted"

\* ------------------------------------------------------------------ C33

\* srv.Shutdown has returned nil and the task is at app.wg.Wait() or past it.
WaitBegunAfterCleanDrain == shutdownErr = "nil" /\ sigpc \in {"wait", "sendNil", "done"}

\* A handler that has started and has not yet reached its app.background.
StillToRegister == {r \in Reqs : hpc[r] = "handling"}

\* C33: when srv.Shutdown has returned nil, every handler has returned
\* before app.wg.Wait() starts and none starts later; so from then on no
\* task is registered, the count only decreases, and the wait returns only
\* when no task is left and none is still to be registered.
C33_NoRegistrationDuringWait ==
    /\ [](WaitBegunAfterCleanDrain
            => /\ InFlight = {}
               /\ StillToRegister = {}
               /\ listener # "open"
               /\ wg = Cardinality(LiveTasks))
    /\ [][WaitBegunAfterCleanDrain
            => /\ wg' <= wg
               /\ hpc' = hpc
               /\ \A r \in Reqs : tpc'[r] = "registered" => tpc[r] = "registered"]_vars
    /\ []((shutdownErr = "nil" /\ sigpc \in {"sendNil", "done"})
            => (wg = 0 /\ LiveTasks = {} /\ StillToRegister = {}))

\* The wait has begun after a clean drain while a task spawned by a handler
\* that has returned is still running.
C33_Witness ==
    /\ shutdownErr = "nil"
    /\ sigpc = "wait"
    /\ wg > 0
    /\ \E r \in Reqs : hpc[r] = "done" /\ tpc[r] = "registered"

\* ------------------------------------------------------------------ C34

\* The entry of address ip is deleted by the step.
Evicted(ip) == clients[ip].present /\ ~clients'[ip].present

\* C34: in every interleaving of the sweep with the requests, the entry a
\* request has looked up or inserted is in the map until the request has its
\* decision, so no request dereferences a missing entry; and while the sweep
\* tests and deletes, no request is between mu.Lock() and mu.Unlock(), so an
\* entry changes only in the hands of the holder of the mutex.
C34_SweepNeverUnderRequest ==
    /\ [](\A r \in RLReqs :
            /\ rlpc[r] # "panic"
            /\ rlpc[r] \in {"seen", "allow", "admitted", "refused"}
                  => clients[Key(r)].present
            /\ (rlpc[r] = "insert" /\ rlfound[r]) => clients[Key(r)].present)
    /\ [](swpc = "scan" => (mu = 0 /\ \A r \in RLReqs : rlpc[r] \notin Critical))
    /\ [][\A ip \in IPs :
             /\ Evicted(ip) => (swpc = "scan" /\ mu = 0 /\ Stale(clients[ip]))
             /\ clients'[ip] # clients[ip]
                  => \/ swpc = "scan" /\ mu = 0
                     \/ \E r \in RLReqs : mu = r /\ Key(r) = ip /\ rlpc[r] \in Critical]_vars

\* A request holds the mutex on an entry that has become stale and that it
\* has not yet refreshed, while a tick of the sweep is waiting.
C34_Witness ==
    \E r \in RLReqs :
       /\ mu = r
       /\ rlpc[r] = "seen"
       /\ tick
       /\ swpc = "idle"
       /\ clients[Key(r)].lastSeen >= 0
       /\ Stale(clients[Key(r)])

\* ------------------------------------------------------------------ C35

\* C35: every request, whether it is then admitted or refused, sets the
\* lastSeen of its entry to the current time before the limiter decides; an
\* entry is evicted only when more than three minutes have passed since the
\* last such refresh, so the entry of an address whose requests are never
\* more than three minutes apart is not evicted, also when they are refused.
C35_RefreshedBeforeDecision ==
    /\ [][\A r \in RLReqs :
             /\ (rlpc[r] = "seen" /\ rlpc'[r] = "allow")
                   => (clients'[Key(r)].present /\ clients'[Key(r)].lastSeen = now)
             /\ (rlpc[r] = "allow" /\ rlpc'[r] \in {"admitted", "refused"})
                   => (clients[Key(r)].present /\ clients[Key(r)].lastSeen \in 0..now)]_vars
    /\ [][\A ip \in IPs :
             /\ Evicted(ip) => now - clients[ip].lastSeen > StaleAfter
             /\ (clients[ip].present /\ clients'[ip].present
                   /\ clients'[ip].lastSeen # clients[ip].lastSeen)
                   => (clients'[ip].lastSeen = now
                       /\ \E r \in RLReqs : Key(r) = ip /\ rlpc[r] = "seen")]_vars

\* The second request of an address was refused one minute after the first;
\* the sweep four minutes after the first request has left the entry in
\* place, three minutes after the refused one.
C35_Witness ==
    /\ now = StaleAfter + 1
    /\ swpc = "idle"
    /\ ~tick
    /\ Len(rlhist) = 2
    /\ rlhist[2].ip = "a"
    /\ ~rlhist[2].ok
    /\ clients["a"].present
    /\ clients["a"].lid = 1
    /\ clients["a"].lastSeen = 1

\* ------------------------------------------------------------------ C36

\* middleware.go:172-200: the handler of rateLimit for a request of the one
\* address, from mu.Lock() to mu.Unlock() in one step (the mutex makes the
\* steps between them indivisible for the map and the limiter).
RateLimitOnce ==
    /\ cfg.enabled
    /\ mu = -1
    /\ Len(rlhist) < MaxEvictReq
    /\ clients' = [clients EXCEPT ![ChainIP] =
                     [SeenClient EXCEPT !.lim = AllowNext(SeenClient.lim, now)]]
    /\ nextLid' = IF clients[ChainIP].present THEN nextLid ELSE nextLid + 1
    /\ rlhist' = Append(rlhist, [ip |-> ChainIP, t |-> now,
                                 ok |-> AllowOk(SeenClient.lim, now),
                                 lid |-> SeenClient.lid])
    /\ UNCHANGED <<lifecycle, quit, requests, chain, cfg, now, limiter, hist, mu, tick, swpc,
                   rlpc, rlip, rlfound, movies>>

\* The requests of one address, the clock and the sweep, for every
\* configuration with the limiter switched on.
InitEvict ==
    /\ ServeInit
    /\ MoviesInit
    /\ ChainInit
    /\ \E c \in Configs : c.enabled /\ LimitInit(c)

NextEvict ==
    \/ Advance
    \/ SweepLock
    \/ SweepScan
    \/ RateLimitOnce

SpecEvict == InitEvict /\ [][NextEvict]_vars

\* The decisions rlhist[i..j] that admitted the request.
AdmittedBetween(i, j) == Cardinality({k \in i..j : rlhist[k].ok})

\* In any window of T ticks at most burst + rate*T requests of the address
\* are admitted (in units: one token is TokenUnit).
AddressWindowBound ==
    \A i \in 1..Len(rlhist) : \A j \in i..Len(rlhist) :
        AdmittedBetween(i, j) * TokenUnit
            <= cfg.burst * TokenUnit + cfg.rate * (rlhist[j].t - rlhist[i].t)

\* The refill over the staleness threshold fills an empty bucket.
RefillCoversBurst == cfg.burst * TokenUnit <= cfg.rate * StaleAfter

\* C36 (the claim as stated): for every rate and burst, also across
\* evictions and re-creations of the entry, the admissions of an address in
\* any window are within burst + rate*T.
C36_WindowBoundAcrossEviction == AddressWindowBound

\* C36 (amended): when the refill over the staleness threshold is at least
\* the burst, the admissions of an address in any window are within
\* burst + rate*T also across evictions and re-creations of its entry.
C36_WindowBoundWhenRefillCoversBurst == RefillCoversBurst => AddressWindowBound

\* With such a configuration the entry was evicted and made anew, requests
\* were admitted by the old and by the new limiter, and one was refused.
C36_Witness ==
    /\ RefillCoversBurst
    /\ nextLid = 2
    /\ \E i \in 1..Len(rlhist) : \E j \in 1..Len(rlhist) : \E k \in 1..Len(rlhist) :
          /\ rlhist[i].lid = 1 /\ rlhist[i].ok
          /\ rlhist[j].lid = 2 /\ rlhist[j].ok
          /\ ~rlhist[k].ok

\* ------------------------------------------------------------------ C37

\* enableCORS has set its header fields for the request: it has been
\* entered and has not panicked before it did anything.
EnableCORSActed == InTrace("enableCORS") /\ (panics = 0 \/ InTrace("rateLimit"))

\* The values sent under the field name k with the response.
Sent(k) == sentHeader[k]

\* C37: the response of a request carries Access-Control-Allow-Origin
\* exactly when the Origin header of the request equals a trusted origin, and
\* its value is then that origin, whichever stage has written the response.
C37_AllowOriginIffTrusted ==
    /\ Sent("Access-Control-Allow-Origin") # <<>> => origin \in TrustedOrigins
    /\ (cpc = "returned" /\ EnableCORSActed)
          => Sent("Access-Control-Allow-Origin")
                = (IF origin \in TrustedOrigins THEN <<origin>> ELSE <<>>)

\* A request from the trusted origin was refused by the rate limiter, and
\* the 429 carries the field.
C37_Witness ==
    /\ cpc = "returned"
    /\ written = "rateLimitExceeded"
    /\ origin \in TrustedOrigins
    /\ Sent("Access-Control-Allow-Origin") = <<origin>>

\* ------------------------------------------------------------------ C38

\* The value v is among those sent under Vary.
VarySent(v) == \E i \in 1..Len(Sent("Vary")) : Sent("Vary")[i] = v

\* C38 (the claim as stated): every response of a request that enableCORS
\* has handled carries the Vary values Origin and
\* Access-Control-Request-Method, also when authenticate has set Vary:
\* Authorization.
C38_VaryValuesKept ==
    (cpc = "returned" /\ EnableCORSActed)
        => (VarySent("Origin") /\ VarySent("Access-Control-Request-Method"))

\* ------------------------------------------------------------------ C39

\* C39 (the claim as stated): the 500 response recoverPanic sends for a
\* panic it has contained carries Connection: close.
C39_ConnectionCloseOnPanic ==
    (cpc = "returned" /\ panics = 1 /\ written = "serverError")
        => Sent("Connection") = <<"close">>

\* ---------------------------------------------- data/movies.go: the record

\* A plausible slip: the statement is written with WHERE id = $5 alone, and
\* changes the record whatever version the caller carries.
VersionMatchesAlways(u) == stored.present

\* part_001:149-152: the row the UPDATE statement finds:
\* WHERE id = $5 AND version = $6, with movie.Version as $6. The database
\* evaluates the condition and changes the row in one step: a statement that
\* waited for another to commit tests the condition again on the new row.
VersionMatches(u) == stored.present /\ stored.version = mver[u]

\* What a call on the database can meet: the statement runs and its answer
\* arrives ("none"), the call fails before the statement has run ("before":
\* no connection, or the 3 seconds of the context are over), or the statement
\* has run and its answer is lost ("after").
Faults == {"none", "before", "after"}

\* part_001:68-136 MovieModel.Get: the client's Movie value gets the stored
\* version; no row is ErrRecordNotFound (127-128), any other failure is
\* returned as it is (129-130).
MovieGet(u) ==
    /\ upc[u] = "idle"
    /\ \E fault \in {"none", "before"} :
         IF fault = "before"
         THEN /\ upc' = [upc EXCEPT ![u] = "done"]
              /\ ures' = [ures EXCEPT ![u] = "err"]
              /\ UNCHANGED <<rver, mver>>
         ELSE IF stored.present
         THEN /\ upc' = [upc EXCEPT ![u] = "read"]
              /\ rver' = [rver EXCEPT ![u] = stored.version]
              /\ mver' = [mver EXCEPT ![u] = stored.version]
              /\ UNCHANGED ures
         ELSE /\ upc' = [upc EXCEPT ![u] = "done"]
              /\ ures' = [ures EXCEPT ![u] = "ErrRecordNotFound"]
              /\ UNCHANGED <<rver, mver>>
    /\ UNCHANGED <<stored, applied>>
    /\ UNCHANGED <<lifecycle, quit, requests, limiting, chain>>

\* part_001:141-185 MovieModel.Update: a row that matches gets the client's
\* columns and version + 1, and RETURNING version is scanned into
\* movie.Version (173); no row is sql.ErrNoRows and so ErrEditConflict
\* (176-177); any other failure is returned as it is (178-179).
MovieUpdate(u) ==
    /\ upc[u] = "read"
    /\ upc' = [upc EXCEPT ![u] = "done"]
    /\ \E fault \in Faults :
         IF fault = "before"
         THEN /\ ures' = [ures EXCEPT ![u] = "err"]
              /\ UNCHANGED <<stored, mver, applied>>
         ELSE IF VersionMatches(u)
         THEN /\ stored' = [stored EXCEPT !.version = @ + 1, !.title = u]
              /\ applied' = [applied EXCEPT ![u] = TRUE]
              /\ mver' = [mver EXCEPT ![u] =
                            IF fault = "none" THEN stored.version + 1 ELSE @]
              /\ ures' = [ures EXCEPT ![u] =
                            IF fault = "none" THEN "nil" ELSE "err"]
         ELSE /\ ures' = [ures EXCEPT ![u] =
                            IF fault = "none" THEN "ErrEditConflict" ELSE "err"]
              /\ UNCHANGED <<stored, mver, applied>>
    /\ UNCHANGED rver
    /\ UNCHANGED <<lifecycle, quit, requests, limiting, chain>>

\* part_001:188-225 MovieModel.Delete, called by some other client: the row
\* is gone.
MovieDelete ==
    /\ stored.present
    /\ stored' = [stored EXCEPT !.present = FALSE]
    /\ UNCHANGED <<upc, rver, mver, ures, applied>>
    /\ UNCHANGED <<lifecycle, quit, requests, limiting, chain>>

NextMovies ==
    \/ \E u \in Updaters : MovieGet(u)
    \/ \E u \in Updaters : MovieUpdate(u)
    \/ MovieDelete

SpecMovies == Init /\ [][NextMovies]_vars

\* ------------------------------------------------------------------ C40

\* The database has answered the Update call of client u.
Answered(u) == ures[u] \in {"nil", "ErrEditConflict"}

\* The clients that have read version v and whose Update call has returned.
UpdatedFrom(v) == {u \in Updaters : rver[u] = v /\ upc[u] = "done"}

\* C40: a call of MovieModel.Update changes the record only if the record
\* is there with the version the caller's movie carries, and then the stored
\* version grows by exactly 1 and nothing else changes the version; of the
\* updates that have read the same version at most one is applied and at
\* most one returns nil, and when two of them have both been answered by the
\* database, with the record still there and no third update applied to that
\* version, one has returned nil and the other ErrEditConflict; an update of
\* a deleted movie changes nothing and returns ErrEditConflict (the database
\* failure itself when the call fails), never nil.
C40_OptimisticLocking ==
    /\ [][\A u \in Updaters :
            (upc[u] = "read" /\ upc'[u] = "done") =>
                /\ stored' # stored =>
                     /\ stored.present /\ stored.version = mver[u]
                     /\ stored' = [stored EXCEPT !.version = @ + 1,
                                                  !.title = u]
                     /\ applied'[u]
                /\ ures'[u] = "nil" =>
                     /\ stored'.version = stored.version + 1
                     /\ mver'[u] = stored'.version
                /\ ures'[u] = "ErrEditConflict" => stored' = stored
                /\ ~stored.present =>
                     /\ stored' = stored
                     /\ ures'[u] \in {"ErrEditConflict", "err"}]_vars
    /\ [][stored'.version # stored.version =>
            \E u \in Updaters : upc[u] = "read" /\ upc'[u] = "done"]_vars
    /\ [](\A u1, u2 \in Updaters :
            (u1 # u2 /\ rver[u1] > 0 /\ rver[u1] = rver[u2]) =>
                /\ ~(applied[u1] /\ applied[u2])
                /\ ~(ures[u1] = "nil" /\ ures[u2] = "nil")
                /\ ( /\ Answered(u1) /\ Answered(u2)
                     /\ stored.present
                     /\ \A u3 \in UpdatedFrom(rver[u1]) \ {u1, u2} :
                            ~applied[u3] )
                   => {ures[u1], ures[u2]} = {"nil", "ErrEditConflict"})

\* Two clients have read version 1; the update of one is applied and returns
\* nil, the other returns ErrEditConflict, and the record is at version 2
\* with the columns of the first.
C40_Witness ==
    \E u1, u2 \in Updaters :
        /\ u1 # u2
        /\ rver[u1] = 1 /\ rver[u2] = 1
        /\ ures[u1] = "nil" /\ ures[u2] = "ErrEditConflict"
        /\ applied[u1] /\ ~applied[u2]
        /\ stored = [present |-> TRUE, version |-> 2, title |-> u1]

====
